---- MODULE Spec2Model ----
(***************************************************************************)
(* The annotation / scoring pipeline of the enzyme discovery backend:      *)
(* EnzymeAnnotator (modules/annotation.py), ExpressionValidator            *)
(* (modules/expression_validate.py), BLASTFilter (modules/blast_filter.py),*)
(* DigestiveMatrixBuilder (modules/matrix_builder.py) and the stage order  *)
(* of EABEnzymeDiscovery.run_pipeline (main.py).                           *)
(*                                                                         *)
(* Scores are Python floats in [0,1]; here they are exact fixed-point      *)
(* integers in units of 1/ONE.  ONE is chosen so that every weight, every  *)
(* per-type match ratio (m/2, m/3), every mean over up to seven types and  *)
(* both blends divide without remainder.                                   *)
(*                                                                         *)
(* Free text is a sequence of space-separated tokens.  What the regular    *)
(* expressions and substring tests of the code see inside one token is     *)
(* given by the tables Lower, WordParts and SubTerms.                      *)
(***************************************************************************)
EXTENDS Integers, Sequences, FiniteSets, TLC

VARIABLES
    pc,              \* position of the run (or of the harness) in its code
    sequences,       \* the list of candidate dicts, mutated in place by the stages
    blast_replies,   \* what the remote BLAST service answers for each candidate
    use_blast,       \* EABEnzymeDiscovery(use_blast=...)
    skip_blast,      \* run_pipeline(skip_blast=...)
    min_confidence,  \* EABEnzymeDiscovery(min_confidence=...)
    high_confidence, \* indices into sequences kept by filter_by_confidence
    db,              \* the rows of the sequences table, in id order
    matrix,          \* the rows returned by build_matrix
    error,           \* the exception that ended the run, or "none"
    conf_log,        \* per candidate: the writes to its "confidence" key, in order
    classification,  \* the last result of classify_enzyme (scorer harness)
    expression,      \* the last results of the expression scorer (scorer harness)
    blend,           \* the blend harness: inputs and the two orders' results
    summary,         \* the last result of generate_summary
    clusters,        \* the last result of identify_enzyme_clusters
    ranked,          \* the last call of rank_by_criteria and what it gave
    exported,        \* the last call of export_matrix and what it did
    organism,        \* run_pipeline(organism=...)
    max_results,     \* run_pipeline(max_results=...)
    search_results,  \* what search_all_organisms returned, one entry per query
    all_ids,         \* the ids run_pipeline collected from the search results
    insert_log       \* the dicts given to insert_sequence so far, in call order

reportVars == <<summary, clusters, ranked, exported>>

searchVars == <<organism, max_results, search_results, all_ids>>

vars == <<pc, sequences, blast_replies, use_blast, skip_blast, min_confidence,
          high_confidence, db, matrix, error, conf_log, classification, expression,
          blend, reportVars, searchVars, insert_log>>

---------------------------------------------------------------------------
(* Bounds of the model *)

MaxCands == 2
MaxDescLen == 2
MaxResults == 2
MaxIds == 2
MaxInserts == 3

---------------------------------------------------------------------------
(* Fixed-point arithmetic *)

ONE == 126 * 10000

Pct(p) == (p * ONE) \div 100

Min(a, b) == IF a <= b THEN a ELSE b

Max(a, b) == IF a >= b THEN a ELSE b

RECURSIVE SumOver(_, _)
SumOver(S, f) ==
    IF S = {} THEN 0
    ELSE LET x == CHOOSE y \in S : TRUE IN f[x] + SumOver(S \ {x}, f)

Range(s) == {s[i] : i \in 1..Len(s)}

RECURSIVE Flatten(_)
Flatten(ss) == IF ss = <<>> THEN <<>> ELSE Head(ss) \o Flatten(Tail(ss))

---------------------------------------------------------------------------
(* Configuration (config.py) *)

EnzymeTypeOrder ==
    <<"cellulase", "laccase", "peroxidase", "oxidase", "xylanase",
      "beta-glucosidase", "mannanase">>

\* ENZYME_KEYWORDS[t]["keywords"], each keyword as its space-separated tokens
ENZYME_KEYWORDS(t) ==
    CASE t = "cellulase" ->
           {<<"cellulase">>, <<"endoglucanase">>, <<"cellobiohydrolase">>}
      [] t = "laccase" ->
           {<<"laccase">>, <<"phenol", "oxidase">>, <<"benzenediol", "oxidase">>}
      [] t = "peroxidase" ->
           {<<"peroxidase">>, <<"lignin", "peroxidase">>, <<"manganese", "peroxidase">>}
      [] t = "oxidase" ->
           {<<"oxidase">>, <<"glucose", "oxidase">>, <<"aryl-alcohol", "oxidase">>}
      [] t = "xylanase" ->
           {<<"xylanase">>, <<"endo-1,4-beta-xylanase">>}
      [] t = "beta-glucosidase" ->
           {<<"beta-glucosidase">>, <<"cellobiase">>}
      [] t = "mannanase" ->
           {<<"mannanase">>, <<"mannan", "endo-1,4-beta-mannosidase">>}

GUT_TISSUES ==
    <<"gut", "midgut", "foregut", "hindgut", "digestive", "alimentary", "intestine">>

DEVELOPMENTAL_STAGES == <<"larva", "larval", "adult", "pupa", "pupal">>

\* CONFIDENCE_WEIGHTS, in hundredths
CW_ec_match == 15
CW_gh_family_match == 15
CW_keyword_match == 10
CW_gut_tissue == 10

---------------------------------------------------------------------------
(* Text: what str.lower, the \b...\b patterns and the "in" tests see in a  *)
(* token.                                                                  *)

\* str.lower() of a token
Lower(tok) ==
    CASE tok = "GH5" -> "gh5"
      [] tok = "AA1" -> "aa1"
      [] tok = "GH9" -> "gh9"
      [] tok = "Gh5" -> "gh5"
      [] tok = "Midgut" -> "midgut"
      [] tok = "Cellulase" -> "cellulase"
      [] OTHER -> tok

\* the words w for which \bw\b matches inside the token, ignoring case
WordParts(tok) ==
    CASE tok = "endo-1,4-beta-xylanase" -> {"endo-1,4-beta-xylanase", "xylanase"}
      [] tok = "" -> {}
      [] tok = "[]" -> {}
      [] OTHER -> {Lower(tok)}

\* the words w for which \bw matches a suffix (w\b a prefix) of the token
WordSuffixes(tok) == WordParts(tok)

WordPrefixes(tok) ==
    CASE tok = "endo-1,4-beta-xylanase" -> {"endo-1,4-beta-xylanase"}
      [] OTHER -> WordParts(tok)

\* the configured tissue and stage terms that are substrings of the lowered token
SubTerms(tok) ==
    LET l == Lower(tok) IN
    CASE l = "gut" -> {"gut"}
      [] l = "midgut" -> {"gut", "midgut"}
      [] l = "foregut" -> {"gut", "foregut"}
      [] l = "hindgut" -> {"gut", "hindgut"}
      [] l = "digestive" -> {"digestive"}
      [] l = "alimentary" -> {"alimentary"}
      [] l = "intestine" -> {"intestine"}
      [] l = "larva" -> {"larva"}
      [] l = "larvae" -> {"larva"}
      [] l = "larval" -> {"larva", "larval"}
      [] l = "adult" -> {"adult"}
      [] l = "pupa" -> {"pupa"}
      [] l = "pupal" -> {"pupa", "pupal"}
      [] OTHER -> {}

\* term in text.lower()
Contains(text, term) == \E i \in 1..Len(text) : term \in SubTerms(text[i])

\* re.compile(r'\b' + re.escape(keyword) + r'\b', re.IGNORECASE).search(text)
PatternSearch(kw, text) ==
    \E i \in 1..(Len(text) - Len(kw) + 1) :
        \A j \in 1..Len(kw) :
            LET tok == text[i + j - 1] IN
            IF Len(kw) = 1 THEN kw[j] \in WordParts(tok)
            ELSE IF j = 1 THEN kw[j] \in WordSuffixes(tok)
            ELSE IF j = Len(kw) THEN kw[j] \in WordPrefixes(tok)
            ELSE Lower(tok) = kw[j]

\* gh_pattern.findall on one token: \b(GH\d+|AA\d+|CE\d+|PL\d+)\b, IGNORECASE
GhMatches(tok) ==
    IF Lower(tok) \in {"gh5", "gh9", "aa1"} THEN {tok} ELSE {}

\* str.upper() of a family-code match
Upper(tok) ==
    CASE Lower(tok) = "gh5" -> "GH5"
      [] Lower(tok) = "gh9" -> "GH9"
      [] Lower(tok) = "aa1" -> "AA1"
      [] OTHER -> tok

\* ec_pattern.findall on one token: \b(\d+\.\d+\.\d+\.\d+)\b
EcMatches(tok) ==
    IF tok \in {"3.2.1.4", "1.10.3.2"} THEN {tok} ELSE {}

---------------------------------------------------------------------------
(* Candidate dicts.  A Python dict is a record that always has every field;*)
(* has is the set of keys the dict really holds and nulls the keys whose   *)
(* value is None.  A field outside has carries a dummy value.              *)

NoClassification ==
    [enzyme_types |-> <<>>, enzyme_scores |-> <<>>, gh_families |-> {},
     ec_numbers |-> {}, confidence |-> 0, is_gut_expressed |-> FALSE,
     keywords_found |-> {}]

EmptyDict ==
    [has |-> {}, nulls |-> {}, accession |-> "", description |-> <<>>,
     protein_name |-> <<>>, gene_name |-> <<>>, keywords |-> <<>>,
     features |-> <<>>, ec_number |-> "", tissue |-> <<>>, stage |-> <<>>,
     seq_len |-> 0, annotation |-> NoClassification, enzyme_type |-> "",
     confidence |-> 0, gh_family |-> "", ec_number_annotated |-> "",
     is_gut_expressed |-> FALSE, tissue_type |-> "",
     dev_stage_validated |-> "", expression_score |-> 0, blast_score |-> 0,
     blast_hits |-> <<>>]

\* d[k] = v
Put(d, k, v) == [d EXCEPT ![k] = v, !.has = @ \cup {k}, !.nulls = @ \ {k}]

\* d[k] = None
PutNone(d, k) == [d EXCEPT !.has = @ \cup {k}, !.nulls = @ \cup {k}]

\* k in d
Has(d, k) == k \in d.has

\* d.get(k) is None although k is in d
IsNone(d, k) == k \in d.has /\ k \in d.nulls

\* d.get(k, default), for a key whose value is not None
Get(d, k, default) == IF k \in d.has THEN d[k] ELSE default

---------------------------------------------------------------------------
(* SequenceRetriever.parse_genbank_record (modules/retrieve_sequences.py)  *)

\* str(features): the qualifier values kept in feature_data, each after its key
FeatureTokens(features) ==
    IF features = <<>> THEN <<"[]">>
    ELSE Flatten([i \in 1..Len(features) |-> <<"'key':">> \o features[i]])

\* rec: [accession, description, seq_len, quals], quals the qualifiers of the
\* record's feature as [has, gene, product, EC_number, tissue_type, dev_stage]
parse_genbank_record(rec) ==
    LET q == rec.quals
        d0 == [EmptyDict EXCEPT
                 !.has = {"accession", "description", "sequence", "length",
                          "organism", "taxonomy", "gene_name", "protein_name",
                          "ec_number", "tissue", "stage", "keywords", "features"},
                 !.nulls = {"ec_number", "tissue", "stage"},
                 !.accession = rec.accession,
                 !.description = rec.description,
                 !.seq_len = rec.seq_len]
        d1 == IF "gene" \in q.has THEN Put(d0, "gene_name", q.gene) ELSE d0
        d2 == IF "product" \in q.has THEN Put(d1, "protein_name", q.product) ELSE d1
        d3 == IF "EC_number" \in q.has THEN Put(d2, "ec_number", q.EC_number) ELSE d2
        d4 == IF "tissue_type" \in q.has THEN Put(d3, "tissue", q.tissue_type) ELSE d3
        d5 == IF "dev_stage" \in q.has THEN Put(d4, "stage", q.dev_stage) ELSE d4
        kept == <<"gene", "product", "EC_number", "tissue_type", "dev_stage">>
        vals == [i \in 1..5 |->
                   IF kept[i] \notin q.has THEN <<>>
                   ELSE IF kept[i] = "EC_number" THEN << <<q.EC_number>> >>
                   ELSE << q[kept[i]] >>]
    IN  Put(d5, "features", Flatten(vals))

---------------------------------------------------------------------------
(* EnzymeAnnotator (modules/annotation.py)                                 *)

\* one field of the " ".join: an empty string still takes its place between
\* two separators
FieldTokens(f) == IF f = <<>> THEN <<"">> ELSE f

\* search_text of classify_enzyme
SearchText(d) ==
    FieldTokens(Get(d, "description", <<>>))
    \o FieldTokens(Get(d, "protein_name", <<>>))
    \o FieldTokens(Get(d, "gene_name", <<>>))
    \o FieldTokens(Get(d, "keywords", <<>>))
    \o (IF IsNone(d, "features") THEN <<"None">>
        ELSE FeatureTokens(Get(d, "features", <<>>)))

\* the exception classify_enzyme raises on d, or "none"
classify_enzyme_error(d) ==
    IF \E k \in {"description", "protein_name", "gene_name", "keywords"} : IsNone(d, k)
    THEN "TypeError"
    ELSE IF IsNone(d, "tissue") THEN "AttributeError"
    ELSE "none"

AllKeywords == UNION {ENZYME_KEYWORDS(t) : t \in Range(EnzymeTypeOrder)}

\* mutant: the family bonus assigned (score = ...) instead of added
calculate_confidence_gh_assigns(d, c) ==
    LET gh_term == IF c.gh_families # {} THEN Pct(CW_gh_family_match) ELSE 0
        gut_term == IF c.is_gut_expressed THEN Pct(CW_gut_tissue) ELSE 0
        before == (IF c.keywords_found # {}
                   THEN (Pct(CW_keyword_match) * Min(Cardinality(c.keywords_found), 5))
                            \div 5
                   ELSE 0)
                  + (IF c.ec_numbers # {} THEN Pct(CW_ec_match) ELSE 0)
        type_term ==
            IF c.enzyme_types # <<>>
            THEN (2 * (SumOver(DOMAIN c.enzyme_scores, c.enzyme_scores)
                          \div Cardinality(DOMAIN c.enzyme_scores))) \div 10
            ELSE 0
    IN  Min((IF c.gh_families # {} THEN gh_term ELSE before) + gut_term + type_term,
            ONE)

\* mutant: the gut bonus given to the candidates that are not gut-expressed
calculate_confidence_gut_inverted(d, c) ==
    LET keyword_term ==
            IF c.keywords_found # {}
            THEN (Pct(CW_keyword_match) * Min(Cardinality(c.keywords_found), 5)) \div 5
            ELSE 0
        ec_term == IF c.ec_numbers # {} THEN Pct(CW_ec_match) ELSE 0
        gh_term == IF c.gh_families # {} THEN Pct(CW_gh_family_match) ELSE 0
        gut_term == IF ~c.is_gut_expressed THEN Pct(CW_gut_tissue) ELSE 0
        type_term ==
            IF c.enzyme_types # <<>>
            THEN (2 * (SumOver(DOMAIN c.enzyme_scores, c.enzyme_scores)
                          \div Cardinality(DOMAIN c.enzyme_scores))) \div 10
            ELSE 0
    IN  Min(keyword_term + ec_term + gh_term + gut_term + type_term, ONE)

calculate_confidence(d, c) ==
    LET keyword_term ==
            IF c.keywords_found # {}
            THEN (Pct(CW_keyword_match) * Min(Cardinality(c.keywords_found), 5)) \div 5
            ELSE 0
        ec_term == IF c.ec_numbers # {} THEN Pct(CW_ec_match) ELSE 0
        gh_term == IF c.gh_families # {} THEN Pct(CW_gh_family_match) ELSE 0
        gut_term == IF c.is_gut_expressed THEN Pct(CW_gut_tissue) ELSE 0
        type_term ==
            IF c.enzyme_types # <<>>
            THEN LET avg_enzyme_score ==
                         SumOver(DOMAIN c.enzyme_scores, c.enzyme_scores)
                             \div Cardinality(DOMAIN c.enzyme_scores)
                 IN  (2 * avg_enzyme_score) \div 10
            ELSE 0
    IN  Min(keyword_term + ec_term + gh_term + gut_term + type_term, ONE)

\* the result of classify_enzyme on a dict it does not raise on
\* mutant: the family codes kept as they were written
ExtractGhFamilies_as_written(search_text) ==
    UNION {GhMatches(search_text[i]) : i \in 1..Len(search_text)}

\* lines 76-78: list(set([gh.upper() for gh in gh_matches])), as the set of the
\* list's elements
ExtractGhFamilies(search_text) ==
    {Upper(m) : m \in UNION {GhMatches(search_text[i]) : i \in 1..Len(search_text)}}

\* mutant: the ec_number field overwritten by the matches of the corpus
ExtractEcNumbers_matches_only(d, search_text) ==
    LET matches == UNION {EcMatches(search_text[i]) : i \in 1..Len(search_text)} IN
    IF matches # {} THEN matches
    ELSE IF Has(d, "ec_number") /\ ~IsNone(d, "ec_number") /\ d.ec_number # ""
    THEN {d.ec_number}
    ELSE {}

\* lines 80-86: the truthy ec_number field and the matches of the corpus, as
\* the set of the list's elements
ExtractEcNumbers(d, search_text) ==
    (IF Has(d, "ec_number") /\ ~IsNone(d, "ec_number") /\ d.ec_number # ""
     THEN {d.ec_number} ELSE {})
    \cup UNION {EcMatches(search_text[i]) : i \in 1..Len(search_text)}

classify_enzyme(d) ==
    LET search_text == SearchText(d)
        matches(t) ==
            Cardinality({kw \in ENZYME_KEYWORDS(t) : PatternSearch(kw, search_text)})
        types == SelectSeq(EnzymeTypeOrder, LAMBDA t : matches(t) > 0)
        scores == [t \in Range(types) |->
                      (matches(t) * ONE) \div Cardinality(ENZYME_KEYWORDS(t))]
        gh == ExtractGhFamilies(search_text)
        ec == ExtractEcNumbers(d, search_text)
        tissue == Get(d, "tissue", <<>>)
        gut == \E g \in Range(GUT_TISSUES) :
                   Contains(tissue, g) \/ Contains(search_text, g)
        found == {kw \in AllKeywords : PatternSearch(kw, search_text)}
        c == [enzyme_types |-> types, enzyme_scores |-> scores,
              gh_families |-> gh, ec_numbers |-> ec, confidence |-> 0,
              is_gut_expressed |-> gut, keywords_found |-> found]
    IN  [c EXCEPT !.confidence = calculate_confidence(d, c)]

---------------------------------------------------------------------------
(* ExpressionValidator (modules/expression_validate.py)                    *)

\* Python's None as the value of a label
NONE == "<None>"

\* the exception is_gut_expressed raises on d, or "none"
is_gut_expressed_error(d) ==
    IF IsNone(d, "tissue") THEN "AttributeError"
    ELSE IF \E g \in Range(GUT_TISSUES) : Contains(Get(d, "tissue", <<>>), g)
    THEN "none"
    ELSE IF IsNone(d, "description") \/ IsNone(d, "protein_name") THEN "TypeError"
    ELSE "none"

is_gut_expressed(d) ==
    LET tissue == Get(d, "tissue", <<>>)
        search_text ==
            Get(d, "description", <<>>) \o Get(d, "protein_name", <<>>)
            \o (IF IsNone(d, "keywords") THEN <<"None">>
                ELSE Get(d, "keywords", <<>>))
    IN  \/ \E g \in Range(GUT_TISSUES) : Contains(tissue, g)
        \/ \E g \in Range(GUT_TISSUES) : Contains(search_text, g)

get_tissue_type_error(d) ==
    IF IsNone(d, "tissue") THEN "AttributeError" ELSE "none"

\* mutant: hindgut tested before midgut and foregut
get_tissue_type_hindgut_first(d) ==
    LET tissue == Get(d, "tissue", <<>>) IN
    IF Contains(tissue, "hindgut") THEN "hindgut"
    ELSE IF Contains(tissue, "midgut") THEN "midgut"
    ELSE IF Contains(tissue, "foregut") THEN "foregut"
    ELSE IF \E g \in Range(GUT_TISSUES) : Contains(tissue, g) THEN "gut"
    ELSE NONE

get_tissue_type(d) ==
    LET tissue == Get(d, "tissue", <<>>) IN
    IF Contains(tissue, "midgut") THEN "midgut"
    ELSE IF Contains(tissue, "foregut") THEN "foregut"
    ELSE IF Contains(tissue, "hindgut") THEN "hindgut"
    ELSE IF \E g \in Range(GUT_TISSUES) : Contains(tissue, g) THEN "gut"
    ELSE NONE

\* the label the stage field alone resolves to, or NONE
StageFromField(d) ==
    LET stage == Get(d, "stage", <<>>) IN
    IF Contains(stage, "larva") \/ Contains(stage, "larval") THEN "larval"
    ELSE IF Contains(stage, "adult") THEN "adult"
    ELSE IF Contains(stage, "pupa") \/ Contains(stage, "pupal") THEN "pupal"
    ELSE NONE

get_developmental_stage_error(d) ==
    IF IsNone(d, "stage") THEN "AttributeError"
    ELSE IF StageFromField(d) # NONE THEN "none"
    ELSE IF IsNone(d, "description") THEN "AttributeError"
    ELSE "none"

get_developmental_stage(d) ==
    IF StageFromField(d) # NONE THEN StageFromField(d)
    ELSE LET description == Get(d, "description", <<>>)
             hits == {i \in 1..Len(DEVELOPMENTAL_STAGES) :
                          Contains(description, DEVELOPMENTAL_STAGES[i])}
         IN  IF hits = {} THEN NONE
             ELSE DEVELOPMENTAL_STAGES[CHOOSE i \in hits : \A j \in hits : i <= j]

calculate_expression_score_error(d) ==
    IF is_gut_expressed_error(d) # "none" THEN is_gut_expressed_error(d)
    ELSE IF is_gut_expressed(d) /\ get_tissue_type_error(d) # "none"
    THEN get_tissue_type_error(d)
    ELSE get_developmental_stage_error(d)

calculate_expression_score(d) ==
    LET gut == IF is_gut_expressed(d) THEN Pct(40) ELSE 0
        region == IF is_gut_expressed(d)
                     /\ get_tissue_type(d) \in {"midgut", "foregut", "hindgut"}
                  THEN Pct(20) ELSE 0
        any_stage == IF get_developmental_stage(d) # NONE THEN Pct(20) ELSE 0
        larval == IF get_developmental_stage(d) = "larval" THEN Pct(20) ELSE 0
    IN  Min(gut + region + any_stage + larval, ONE)

\* mutant: the two weights exchanged
BlendExpression_swapped(confidence, expression_score) ==
    (confidence * 3 + expression_score * 7) \div 10

\* mutant: the homology blend's weights used for the expression blend
BlendExpression_homology_weights(confidence, expression_score) ==
    (confidence * 6 + expression_score * 4) \div 10

\* seq["confidence"] * 0.7 + seq["expression_score"] * 0.3
BlendExpression(confidence, expression_score) ==
    (confidence * 7 + expression_score * 3) \div 10

\* seq[k] = v for a label that may be None
PutLabel(d, k, v) == IF v = NONE THEN PutNone(d, k) ELSE Put(d, k, v)

\* one iteration of validate_batch's loop: the dict as the iteration leaves it,
\* also when one of its calls raises half way
ValidateOne(d) ==
    IF is_gut_expressed_error(d) # "none" THEN d
    ELSE LET d1 == Put(d, "is_gut_expressed", is_gut_expressed(d)) IN
    IF get_tissue_type_error(d1) # "none" THEN d1
    ELSE LET d2 == PutLabel(d1, "tissue_type", get_tissue_type(d1)) IN
    IF get_developmental_stage_error(d2) # "none" THEN d2
    ELSE LET d3 == PutLabel(d2, "dev_stage_validated", get_developmental_stage(d2)) IN
    IF calculate_expression_score_error(d3) # "none" THEN d3
    ELSE LET d4 == Put(d3, "expression_score", calculate_expression_score(d3)) IN
    IF Has(d4, "confidence")
    THEN Put(d4, "confidence", BlendExpression(d4.confidence, d4.expression_score))
    ELSE d4

\* the exception that iteration raises, or "none"
ValidateOneError(d) ==
    IF is_gut_expressed_error(d) # "none" THEN is_gut_expressed_error(d)
    ELSE IF get_tissue_type_error(d) # "none" THEN get_tissue_type_error(d)
    ELSE IF get_developmental_stage_error(d) # "none"
    THEN get_developmental_stage_error(d)
    ELSE calculate_expression_score_error(d)

---------------------------------------------------------------------------
(* BLASTFilter (modules/blast_filter.py).  identity and coverage are in     *)
(* percent, e-values in tenths of the configured threshold.                *)

BLAST_EVALUE_THRESHOLD == 10
BLAST_IDENTITY_THRESHOLD == 50
BLAST_COVERAGE_THRESHOLD == 70
MIN_BLAST_LENGTH == 50

filter_hits(hits) ==
    SelectSeq(hits, LAMBDA hit :
        /\ hit.evalue <= BLAST_EVALUE_THRESHOLD
        /\ hit.identity >= BLAST_IDENTITY_THRESHOLD
        /\ hit.coverage >= BLAST_COVERAGE_THRESHOLD)

\* reply: [ok, hits]; run_blast_remote returns None when the request fails
blast_and_filter(reply) ==
    IF ~reply.ok THEN <<>> ELSE filter_hits(reply.hits)

\* mutant: the score taken from the first accepted hit, whatever its bit score
calculate_homology_score_first_hit(hits) ==
    IF hits = <<>> THEN 0
    ELSE LET best_hit == hits[1]
             identity_score == Min((best_hit.identity * ONE) \div 100, ONE)
             coverage_score == Min((best_hit.coverage * ONE) \div 100, ONE)
             evalue_score ==
                 Max(0, ONE - (best_hit.evalue * ONE) \div BLAST_EVALUE_THRESHOLD)
         IN  (identity_score * 4 + coverage_score * 3 + evalue_score * 3) \div 10

calculate_homology_score(hits) ==
    IF hits = <<>> THEN 0
    ELSE LET top == CHOOSE i \in 1..Len(hits) :
                        /\ \A j \in 1..Len(hits) : hits[j].bitscore <= hits[i].bitscore
                        /\ \A j \in 1..(i - 1) : hits[j].bitscore < hits[i].bitscore
             best_hit == hits[top]
             identity_score == Min((best_hit.identity * ONE) \div 100, ONE)
             coverage_score == Min((best_hit.coverage * ONE) \div 100, ONE)
             evalue_score ==
                 Max(0, ONE - (best_hit.evalue * ONE) \div BLAST_EVALUE_THRESHOLD)
         IN  (identity_score * 4 + coverage_score * 3 + evalue_score * 3) \div 10

\* mutant: the homology share added without scaling the old value down
BlendHomology_additive(confidence, homology_score) ==
    confidence + (homology_score * 4) \div 10

\* mutant: the expression blend's weights used for the homology blend
BlendHomology_expression_weights(confidence, homology_score) ==
    (confidence * 7 + homology_score * 3) \div 10

\* seq_data["confidence"] * 0.6 + homology_score * 0.4
BlendHomology(confidence, homology_score) ==
    (confidence * 6 + homology_score * 4) \div 10

\* mutant: the blend starts again from the classification confidence
BlastOne_from_annotation(d, reply) ==
    IF (IF Has(d, "sequence") THEN d.seq_len ELSE 0) < MIN_BLAST_LENGTH
    THEN Put(Put(d, "blast_score", 0), "blast_hits", <<>>)
    ELSE LET hits == blast_and_filter(reply)
             homology_score == calculate_homology_score(hits)
             d1 == Put(Put(d, "blast_hits", hits), "blast_score", homology_score)
         IN  IF Has(d1, "confidence")
             THEN Put(d1, "confidence",
                      (d1.annotation.confidence * 6 + homology_score * 4) \div 10)
             ELSE d1

\* mutant: the expression score reset when the homology data are attached
BlastOne_resets_expression(d, reply) ==
    IF (IF Has(d, "sequence") THEN d.seq_len ELSE 0) < MIN_BLAST_LENGTH
    THEN Put(Put(Put(d, "blast_score", 0), "blast_hits", <<>>), "expression_score", 0)
    ELSE LET hits == blast_and_filter(reply)
             homology_score == calculate_homology_score(hits)
             d1 == Put(Put(Put(d, "blast_hits", hits), "blast_score", homology_score),
                       "expression_score", 0)
         IN  IF Has(d1, "confidence")
             THEN Put(d1, "confidence", BlendHomology(d1.confidence, homology_score))
             ELSE d1

\* one iteration of annotate_with_blast's loop
BlastOne(d, reply) ==
    IF (IF Has(d, "sequence") THEN d.seq_len ELSE 0) < MIN_BLAST_LENGTH
    THEN Put(Put(d, "blast_score", 0), "blast_hits", <<>>)
    ELSE LET hits == blast_and_filter(reply)
             homology_score == calculate_homology_score(hits)
             d1 == Put(Put(d, "blast_hits", hits), "blast_score", homology_score)
         IN  IF Has(d1, "confidence")
             THEN Put(d1, "confidence", BlendHomology(d1.confidence, homology_score))
             ELSE d1

---------------------------------------------------------------------------
(* DigestiveMatrixBuilder (modules/matrix_builder.py)                      *)

\* round(x, 3): to the nearest thousandth, an exact tie to the even one
Round3(x) ==
    LET unit == ONE \div 1000
        q == x \div unit
        r == x % unit
    IN  IF 2 * r < unit THEN q * unit
        ELSE IF 2 * r > unit THEN (q + 1) * unit
        ELSE IF q % 2 = 0 THEN q * unit ELSE (q + 1) * unit

\* d.get(k, default) for a label that may be None
GetLabel(d, k, default) ==
    IF ~Has(d, k) THEN default ELSE IF IsNone(d, k) THEN NONE ELSE d[k]

\* function_map of _infer_function
function_map ==
    [t \in {"cellulase", "laccase", "peroxidase", "oxidase", "xylanase",
            "beta-glucosidase", "mannanase"} |->
        CASE t = "cellulase" -> "Cellulose hydrolysis"
          [] t = "laccase" -> "Lignin oxidation"
          [] t = "peroxidase" -> "Lignin degradation"
          [] t = "oxidase" -> "Oxidative degradation"
          [] t = "xylanase" -> "Hemicellulose breakdown"
          [] t = "beta-glucosidase" -> "Cellulose hydrolysis"
          [] t = "mannanase" -> "Hemicellulose breakdown"]

_infer_function(d) ==
    LET enzyme_type == GetLabel(d, "enzyme_type", "") IN
    IF enzyme_type \in DOMAIN function_map THEN function_map[enzyme_type]
    ELSE "Wood polymer degradation"

\* the row build_matrix makes of a kept candidate; index is its position among
\* the kept candidates (the DataFrame's index)
MatrixRow(d, index) ==
    [index |-> index,
     Enzyme |-> GetLabel(d, "enzyme_type", "unknown"),
     EC |-> GetLabel(d, "ec_number_annotated", ""),
     Family |-> GetLabel(d, "gh_family", ""),
     GeneID |-> GetLabel(d, "accession", ""),
     Tissue |-> IF Has(d, "tissue_type")
                THEN <<GetLabel(d, "tissue_type", "")>>
                ELSE IF IsNone(d, "tissue") THEN <<NONE>>
                ELSE Get(d, "tissue", <<>>),
     Stage |-> IF Has(d, "dev_stage_validated")
               THEN <<GetLabel(d, "dev_stage_validated", "")>>
               ELSE IF IsNone(d, "stage") THEN <<NONE>>
               ELSE Get(d, "stage", <<>>),
     Confidence |-> Round3(Get(d, "confidence", 0)),
     Expression |-> Round3(Get(d, "expression_score", 0)),
     BLASTScore |-> Round3(Get(d, "blast_score", 0)),
     Function |-> _infer_function(d)]

\* mutant: the filter applied with build_matrix's default threshold 0.5, not
\* with the threshold it was passed
MatrixFiltered_default_threshold(seqs, threshold) ==
    SelectSeq(seqs, LAMBDA d : Get(d, "confidence", 0) >= ONE \div 2)

\* the candidates build_matrix keeps, in input order
MatrixFiltered(seqs, threshold) ==
    SelectSeq(seqs, LAMBDA d : Get(d, "confidence", 0) >= threshold)

\* pd.DataFrame([]) has no "Confidence" column to sort by
build_matrix_error(seqs, threshold) ==
    IF MatrixFiltered(seqs, threshold) = <<>> THEN "KeyError" ELSE "none"

\* df.sort_values("Confidence", ascending=False): the default kind is quicksort,
\* which does not promise an order among equal keys
SortOutcomes(rows) ==
    LET n == Len(rows) IN
    {p \in {[i \in 1..n |-> rows[f[i]]] : f \in Permutations(1..n)} :
        \A i, j \in 1..n : i < j => p[i].Confidence >= p[j].Confidence}

\* the orders sort_values(column, ascending=False) may leave the rows in,
\* keys[i] being the value of the sorted column in rows[i]
SortedBy(rows, keys) ==
    LET n == Len(rows) IN
    {[i \in 1..n |-> rows[f[i]]] : f \in
        {g \in Permutations(1..n) : \A i, j \in 1..n : i < j => keys[g[i]] >= keys[g[j]]}}

\* the matrices build_matrix may return when it does not raise
build_matrix(seqs, threshold) ==
    LET filtered == MatrixFiltered(seqs, threshold)
        matrix_data == [i \in 1..Len(filtered) |-> MatrixRow(filtered[i], i - 1)]
    IN  SortOutcomes(matrix_data)

---------------------------------------------------------------------------
(* EnzymeAnnotator.annotate_batch and filter_by_confidence                 *)

\* Series.str.contains(term, na=False) on one cell (case-sensitive; no token of
\* the model's texts has a configured term in upper case)
StrContains(cell, term) ==
    /\ cell # <<NONE>>
    /\ \E i \in 1..Len(cell) : term \in SubTerms(cell[i])

\* Series.value_counts().to_dict(): the values that are not None, with their
\* numbers of rows
value_counts(cells, none) ==
    [v \in Range(cells) \ {none} |->
        Cardinality({i \in 1..Len(cells) : cells[i] = v})]

\* a column of the frame
Column(matrix_df, name) == [i \in 1..Len(matrix_df) |-> matrix_df[i][name]]

\* the summary threshold 0.8
HIGH_CONFIDENCE == (ONE \div 10) * 8

\* the exception generate_summary raises: a frame built from no rows has no
\* columns, so matrix_df["Enzyme"] fails
generate_summary_error(matrix_df) ==
    IF matrix_df = <<>> THEN "KeyError" ELSE "none"

NoSummary ==
    [error |-> "none", total_enzymes |-> 0, unique_enzyme_types |-> 0,
     enzyme_distribution |-> <<>>, tissue_distribution |-> <<>>,
     stage_distribution |-> <<>>, gh_family_distribution |-> <<>>,
     avg_confidence |-> 0, high_confidence_count |-> 0,
     gut_expressed_count |-> 0, larval_stage_count |-> 0]

\* generate_summary on a frame that has rows
generate_summary(matrix_df) ==
    LET n == Len(matrix_df)
        rows == 1..n
    IN  [error |-> "none",
         total_enzymes |-> n,
         unique_enzyme_types |->
             Cardinality(DOMAIN value_counts(Column(matrix_df, "Enzyme"), NONE)),
         enzyme_distribution |-> value_counts(Column(matrix_df, "Enzyme"), NONE),
         tissue_distribution |-> value_counts(Column(matrix_df, "Tissue"), <<NONE>>),
         stage_distribution |-> value_counts(Column(matrix_df, "Stage"), <<NONE>>),
         gh_family_distribution |->
             value_counts(SelectSeq(Column(matrix_df, "Family"), LAMBDA v : v # ""),
                          NONE),
         avg_confidence |->
             SumOver(rows, [i \in rows |-> matrix_df[i].Confidence]) \div n,
         high_confidence_count |->
             Cardinality({i \in rows : matrix_df[i].Confidence >= HIGH_CONFIDENCE}),
         gut_expressed_count |->
             Cardinality({i \in rows : StrContains(matrix_df[i].Tissue, "gut")}),
         larval_stage_count |->
             Cardinality({i \in rows : StrContains(matrix_df[i].Stage, "larval")})]

\* the gene ids of the rows whose Enzyme is one of types, in row order
GeneIdsOf(matrix_df, types) ==
    LET picked == SelectSeq(matrix_df, LAMBDA row : row.Enzyme \in types) IN
    [i \in 1..Len(picked) |-> picked[i].GeneID]

\* mutant: "oxidase" missing from the chain of tests
identify_enzyme_clusters_no_oxidase(matrix_df) ==
    LET cellulose == {"cellulase", "beta-glucosidase"}
        lignin == {"laccase", "peroxidase"}
        hemicellulose == {"xylanase", "mannanase"}
        named == cellulose \cup lignin \cup hemicellulose
        any == {matrix_df[i].Enzyme : i \in 1..Len(matrix_df)}
    IN  [cellulose |-> GeneIdsOf(matrix_df, cellulose),
         lignin |-> GeneIdsOf(matrix_df, lignin),
         hemicellulose |-> GeneIdsOf(matrix_df, hemicellulose),
         oxidative |-> <<>>,
         other |-> GeneIdsOf(matrix_df, any \ named)]

\* the buckets are the keys "Cellulose Degradation", "Lignin Degradation",
\* "Hemicellulose Degradation", "Oxidative Enzymes" and "Other"
identify_enzyme_clusters(matrix_df) ==
    LET cellulose == {"cellulase", "beta-glucosidase"}
        lignin == {"laccase", "peroxidase"}
        hemicellulose == {"xylanase", "mannanase"}
        oxidative == {"oxidase"}
        named == cellulose \cup lignin \cup hemicellulose \cup oxidative
        any == {matrix_df[i].Enzyme : i \in 1..Len(matrix_df)}
    IN  [cellulose |-> GeneIdsOf(matrix_df, cellulose),
         lignin |-> GeneIdsOf(matrix_df, lignin),
         hemicellulose |-> GeneIdsOf(matrix_df, hemicellulose),
         oxidative |-> GeneIdsOf(matrix_df, oxidative),
         other |-> GeneIdsOf(matrix_df, any \ named)]

RankCriteria == {"overall", "confidence", "expression", "blast"}

\* the exception rank_by_criteria raises: a known criteria reads a column,
\* which a frame built from no rows does not have; an unknown one reads nothing
rank_by_criteria_error(matrix_df, criteria) ==
    IF criteria \in RankCriteria /\ matrix_df = <<>> THEN "KeyError" ELSE "none"

\* Confidence * 0.5 + Expression * 0.3 + BLAST Score * 0.2
RankScore(row) == (row.Confidence * 5 + row.Expression * 3 + row.BLASTScore * 2) \div 10

\* the caller's frame after rank_by_criteria: "overall" assigns the column
\* "Rank Score" to matrix_df itself (lines 168-172) before sorting a copy
rank_by_criteria_frame(matrix_df, criteria) ==
    IF criteria = "overall"
    THEN [i \in 1..Len(matrix_df) |->
            [RankScore |-> RankScore(matrix_df[i])] @@ matrix_df[i]]
    ELSE matrix_df

\* the frames rank_by_criteria may return when it does not raise
rank_by_criteria(matrix_df, criteria) ==
    LET n == Len(matrix_df) IN
    CASE criteria = "overall" ->
           SortedBy(rank_by_criteria_frame(matrix_df, criteria),
                    [i \in 1..n |-> RankScore(matrix_df[i])])
      [] criteria = "confidence" ->
           SortedBy(matrix_df, [i \in 1..n |-> matrix_df[i].Confidence])
      [] criteria = "expression" ->
           SortedBy(matrix_df, [i \in 1..n |-> matrix_df[i].Expression])
      [] criteria = "blast" ->
           SortedBy(matrix_df, [i \in 1..n |-> matrix_df[i].BLASTScore])
      [] OTHER -> {matrix_df}

ExportFormats == {"csv", "json", "excel"}

\* the exception export_matrix raises
export_matrix_error(format) ==
    IF format \in ExportFormats THEN "none" ELSE "ValueError"

\* classification["gh_families"][0]: the list is list(set(...)), whose order
\* is not fixed
GhFamilyChoices(d) ==
    LET c == classify_enzyme(d) IN
    IF c.gh_families = {} THEN {NONE} ELSE c.gh_families

\* classification["ec_numbers"][0] or seq.get("ec_number")
EcNumberChoices(d) ==
    LET c == classify_enzyme(d) IN
    IF c.ec_numbers # {} THEN c.ec_numbers
    ELSE IF Has(d, "ec_number") /\ ~IsNone(d, "ec_number") THEN {d.ec_number}
    ELSE {NONE}

\* one iteration of annotate_batch's loop
AnnotateOne(d, gh, ec) ==
    LET c == classify_enzyme(d)
        d1 == Put(d, "annotation", c)
        d2 == Put(d1, "enzyme_type",
                  IF c.enzyme_types # <<>> THEN c.enzyme_types[1] ELSE "unknown")
        d3 == Put(d2, "confidence", c.confidence)
        d4 == PutLabel(d3, "gh_family", gh)
    IN  PutLabel(d4, "ec_number_annotated", ec)

\* the first iteration that raises, errors[i] being what iteration i raises
\* ("none" for nothing); Len(errors) + 1 if none does
FirstRaise(errors) ==
    LET bad == {i \in 1..Len(errors) : errors[i] # "none"} IN
    IF bad = {} THEN Len(errors) + 1 ELSE CHOOSE i \in bad : \A j \in bad : i <= j

\* the positions of the candidates filter_by_confidence keeps, in list order
filter_by_confidence(seqs, threshold) ==
    SelectSeq([i \in 1..Len(seqs) |-> i],
              LAMBDA i : Get(seqs[i], "confidence", 0) >= threshold)

---------------------------------------------------------------------------
(* DatabaseManager.insert_batch (modules/storage.py): insert by accession, *)
(* an accession already present is updated                                 *)

\* the values insert_sequence binds to the columns of the sequences table
SequenceRow(id, d) ==
    [id |-> id,
     accession |-> d.accession,
     enzyme_type |-> GetLabel(d, "enzyme_type", NONE),
     ec_number |-> GetLabel(d, "ec_number_annotated", NONE),
     gh_family |-> GetLabel(d, "gh_family", NONE),
     confidence |-> Get(d, "confidence", 0),
     tissue |-> IF Has(d, "tissue") /\ ~IsNone(d, "tissue") THEN d.tissue
                ELSE <<NONE>>,
     dev_stage |-> IF Has(d, "stage") /\ ~IsNone(d, "stage") THEN d.stage
                   ELSE <<NONE>>]

\* the INSERT violates "accession TEXT UNIQUE NOT NULL"
IntegrityError(table, d) ==
    \/ ~Has(d, "accession")
    \/ IsNone(d, "accession")
    \/ \E i \in 1..Len(table) : table[i].accession = d.accession

\* the exception insert_sequence raises: without an accession the INSERT fails,
\* the UPDATE matches no row and fetchone() gives None
insert_sequence_error(table, d) ==
    IF ~Has(d, "accession") \/ IsNone(d, "accession") THEN "TypeError" ELSE "none"

\* mutant: the IntegrityError swallowed without the UPDATE
insert_sequence_ignore(table, d) ==
    IF IntegrityError(table, d) THEN table
    ELSE Append(table, SequenceRow(Len(table) + 1, d))

\* the sequences table after insert_sequence(d); ids are AUTOINCREMENT and no
\* row is ever deleted
insert_sequence(table, d) ==
    IF ~IntegrityError(table, d)
    THEN Append(table, SequenceRow(Len(table) + 1, d))
    ELSE IF insert_sequence_error(table, d) # "none" THEN table
    ELSE [i \in 1..Len(table) |->
            IF table[i].accession = d.accession
            THEN SequenceRow(table[i].id, d)
            ELSE table[i]]

\* insert_batch logs and skips an insert that raises
RECURSIVE insert_batch(_, _)
insert_batch(table, seqs) ==
    IF seqs = <<>> THEN table
    ELSE insert_batch(insert_sequence(table, Head(seqs)), Tail(seqs))

-------------------------------------------------------------------------------------------------------------------------------------------
(* Search and retrieval (modules/search_ncbi.py, steps 1 and 2 of          *)
(* run_pipeline)                                                           *)

PRIMARY_ORGANISM == "Agrilus planipennis"

RELATED_SPECIES ==
    <<"Agrilus anxius", "Agrilus biguttatus", "Chrysobothris femorata",
      "Melanophila acuminata">>

\* the organisms search_all_organisms queries with include_related=True
SearchedOrganisms == <<PRIMARY_ORGANISM>> \o RELATED_SPECIES

\* s[:n]; a negative n counts from the end
Slice(s, n) ==
    IF n >= 0 THEN SubSeq(s, 1, Min(n, Len(s)))
    ELSE SubSeq(s, 1, Max(Len(s) + n, 0))

\* search_all_organisms: one result per queried organism; sizes[i] is the
\* number of ids NCBI returns for the i-th query, an id being <<i, k>>
search_all_organisms(sizes) ==
    [i \in 1..Len(SearchedOrganisms) |->
        [organism |-> SearchedOrganisms[i],
         id_list |-> [k \in 1..sizes[i] |-> <<i, k>>]]]

\* lines 79-81: all_ids.extend(result["id_list"][:max_results]) over the results
RECURSIVE CollectIds(_, _)
CollectIds(results, n) ==
    IF results = <<>> THEN <<>>
    ELSE Slice(Head(results).id_list, n) \o CollectIds(Tail(results), n)

\* mutant: every collected id handed to retrieve_batch
RetrievalIds_all(ids, n) == ids

\* line 93: id_list=all_ids[:max_results]
RetrievalIds(ids, n) == Slice(ids, n)

\* retrieve_batch: the dicts of the ids whose retrieval gave a record, in order
retrieve_batch(id_list, fetched) ==
    LET got == SelectSeq(id_list, LAMBDA id : id \in fetched) IN
    [i \in 1..Len(got) |-> Put(EmptyDict, "accession", got[i])]

-----------
(* Inputs of a pipeline run: the records the retrieval step delivers       *)

Quals(has, ec, tissue, stage) ==
    [has |-> has, gene |-> <<>>, product |-> <<>>, EC_number |-> ec,
     tissue_type |-> tissue, dev_stage |-> stage]

GenbankInputs ==
    { \* a well-annotated larval midgut cellulase
      [description |-> <<"cellulase", "GH5">>, seq_len |-> 120,
       quals |-> Quals({"EC_number", "tissue_type", "dev_stage"},
                       "3.2.1.4", <<"midgut">>, <<"larval">>)],
      \* a record without qualifiers: ec_number, tissue and stage stay None
      [description |-> <<"cellulase">>, seq_len |-> 120,
       quals |-> Quals({}, "", <<>>, <<>>)],
      \* a tissue qualifier but no stage qualifier
      [description |-> <<"endo-1,4-beta-xylanase">>, seq_len |-> 120,
       quals |-> Quals({"tissue_type"}, "", <<"gut">>, <<>>)],
      \* no enzyme evidence at all
      [description |-> <<"protein">>, seq_len |-> 120,
       quals |-> Quals({"tissue_type", "dev_stage"}, "", <<"antenna">>, <<"adult">>)],
      \* two family codes in the description
      [description |-> <<"endoglucanase", "GH5", "GH9">>, seq_len |-> 80,
       quals |-> Quals({"tissue_type", "dev_stage"}, "", <<"hindgut">>, <<"adult">>)],
      \* a sequence too short to be BLASTed
      [description |-> <<"laccase">>, seq_len |-> 30,
       quals |-> Quals({"tissue_type", "dev_stage"}, "", <<"midgut">>, <<"larval">>)] }

Hit(identity, coverage, evalue, bitscore) ==
    [identity |-> identity, coverage |-> coverage, evalue |-> evalue,
     bitscore |-> bitscore]

NoReply == [ok |-> FALSE, hits |-> <<>>]

BlastReplies ==
    { NoReply,
      [ok |-> TRUE, hits |-> <<Hit(100, 100, 0, 500)>>],
      [ok |-> TRUE, hits |-> <<Hit(40, 100, 0, 90), Hit(50, 70, 10, 60)>>],
      [ok |-> TRUE, hits |-> <<Hit(60, 80, 5, 100), Hit(90, 100, 0, 300)>>] }

ConfidenceThresholds == {0, ONE \div 2}

NoBlend == [old |-> 0, expr |-> 0, hom |-> 0, first |-> 0, fwd |-> 0,
            rev |-> 0, done |-> {}]

NoExpression ==
    [gut_error |-> "none", tissue_error |-> "none", stage_error |-> "none",
     score_error |-> "none", is_gut_expressed |-> FALSE, tissue_type |-> NONE,
     stage |-> NONE, score |-> 0]

NoScore == [error |-> "none", result |-> NoClassification]

\* nothing reported yet
ReportIdle ==
    /\ summary = NoSummary
    /\ clusters = [cellulose |-> <<>>, lignin |-> <<>>, hemicellulose |-> <<>>,
                   oxidative |-> <<>>, other |-> <<>>]
    /\ ranked = [criteria |-> "", error |-> "none", returned |-> FALSE, rows |-> <<>>]
    /\ exported = [format |-> "", error |-> "none", written |-> FALSE]

\* no search made
SearchIdle ==
    /\ organism = PRIMARY_ORGANISM
    /\ max_results = 0
    /\ search_results = <<>>
    /\ all_ids = <<>>

\* sequences of length 0..n over S
SeqsUpTo(S, n) == UNION {[1..k -> S] : k \in 0..n}

---------------------------------------------------------------------------
(* EABEnzymeDiscovery.run_pipeline (main.py), from step 3 on               *)

Init ==
    /\ pc = "retrieved"
    /\ \E recs \in SeqsUpTo(GenbankInputs, MaxCands) :
          sequences = [i \in 1..Len(recs) |->
                         parse_genbank_record(
                            [accession |-> i, description |-> recs[i].description,
                             seq_len |-> recs[i].seq_len, quals |-> recs[i].quals])]
    /\ blast_replies = <<>>
    /\ use_blast \in BOOLEAN
    /\ skip_blast \in BOOLEAN
    /\ min_confidence \in ConfidenceThresholds
    /\ high_confidence = <<>>
    /\ db = <<>>
    /\ matrix = <<>>
    /\ error = "none"
    /\ conf_log = [i \in 1..Len(sequences) |-> <<>>]
    /\ classification = NoScore
    /\ expression = NoExpression
    /\ blend = NoBlend
    /\ ReportIdle
    /\ SearchIdle
    /\ insert_log = <<>>

\* lines 98-100: nothing was retrieved
NoSequences ==
    /\ pc = "retrieved"
    /\ sequences = <<>>
    /\ pc' = "done"
    /\ UNCHANGED <<sequences, blast_replies, use_blast, skip_blast, min_confidence,
                   high_confidence, db, matrix, error, conf_log, classification,
                   expression, blend>>
    /\ UNCHANGED <<reportVars, searchVars, insert_log>>

LogWrite(log, stage, d) == Append(log, [stage |-> stage, value |-> d.confidence])

\* the lists that take their i-th element from choices[i]
RECURSIVE Product(_)
Product(choices) ==
    IF choices = <<>> THEN {<<>>}
    ELSE {<<x>> \o rest : x \in Head(choices), rest \in Product(Tail(choices))}

\* the dicts one iteration of annotate_batch's loop may leave
AnnotateOutcomes(d) ==
    {AnnotateOne(d, gh, ec) : gh \in GhFamilyChoices(d), ec \in EcNumberChoices(d)}

\* step 3
AnnotateBatch ==
    /\ pc = "retrieved"
    /\ sequences # <<>>
    /\ LET n == Len(sequences)
           stop == FirstRaise([i \in 1..n |-> classify_enzyme_error(sequences[i])])
       IN  /\ sequences' \in Product([i \in 1..n |->
                                        IF i < stop THEN AnnotateOutcomes(sequences[i])
                                        ELSE {sequences[i]}])
           /\ conf_log' = [i \in 1..n |->
                             IF i < stop
                             THEN LogWrite(conf_log[i], "classification", sequences'[i])
                             ELSE conf_log[i]]
           /\ error' = IF stop <= n THEN classify_enzyme_error(sequences[stop])
                       ELSE "none"
           /\ pc' = IF stop <= n THEN "failed" ELSE "annotated"
    /\ UNCHANGED <<blast_replies, use_blast, skip_blast, min_confidence,
                   high_confidence, db, matrix, classification, expression, blend>>
    /\ UNCHANGED <<reportVars, searchVars, insert_log>>

\* step 4
ValidateBatch ==
    /\ pc = "annotated"
    /\ LET n == Len(sequences)
           stop == FirstRaise([i \in 1..n |-> ValidateOneError(sequences[i])])
       IN  /\ sequences' = [i \in 1..n |->
                              IF i <= stop THEN ValidateOne(sequences[i])
                              ELSE sequences[i]]
           /\ conf_log' = [i \in 1..n |->
                             IF i < stop /\ Has(sequences[i], "confidence")
                             THEN LogWrite(conf_log[i], "expression", sequences'[i])
                             ELSE conf_log[i]]
           /\ error' = IF stop <= n THEN ValidateOneError(sequences[stop]) ELSE "none"
           /\ pc' = IF stop <= n THEN "failed" ELSE "validated"
    /\ UNCHANGED <<blast_replies, use_blast, skip_blast, min_confidence,
                   high_confidence, db, matrix, classification, expression, blend>>
    /\ UNCHANGED <<reportVars, searchVars, insert_log>>

\* whether annotate_with_blast sends the candidate's sequence to BLAST
BlastAsks(d) == (IF Has(d, "sequence") THEN d.seq_len ELSE 0) >= MIN_BLAST_LENGTH

\* step 5
BlastStage ==
    /\ pc = "validated"
    /\ IF ~skip_blast /\ use_blast
       THEN \E replies \in [1..Len(sequences) -> BlastReplies] :
               /\ \A i \in 1..Len(sequences) :
                     ~BlastAsks(sequences[i]) => replies[i] = NoReply
               /\ blast_replies' = replies
               /\ sequences' = [i \in 1..Len(sequences) |->
                                  BlastOne(sequences[i], replies[i])]
               /\ conf_log' = [i \in 1..Len(sequences) |->
                                 IF BlastAsks(sequences[i])
                                    /\ Has(sequences[i], "confidence")
                                 THEN LogWrite(conf_log[i], "homology", sequences'[i])
                                 ELSE conf_log[i]]
       ELSE UNCHANGED <<blast_replies, sequences, conf_log>>
    /\ pc' = "blasted"
    /\ UNCHANGED <<use_blast, skip_blast, min_confidence, high_confidence, db,
                   matrix, error, classification, expression, blend>>
    /\ UNCHANGED <<reportVars, searchVars, insert_log>>

\* step 6
FilterByConfidence ==
    /\ pc = "blasted"
    /\ high_confidence' = filter_by_confidence(sequences, min_confidence)
    /\ pc' = "filtered"
    /\ UNCHANGED <<sequences, blast_replies, use_blast, skip_blast, min_confidence,
                   db, matrix, error, conf_log, classification, expression, blend>>
    /\ UNCHANGED <<reportVars, searchVars, insert_log>>

\* the kept candidates as a list
Kept == [k \in 1..Len(high_confidence) |-> sequences[high_confidence[k]]]

\* step 7
InsertBatch ==
    /\ pc = "filtered"
    /\ db' = insert_batch(db, Kept)
    /\ insert_log' = insert_log \o Kept
    /\ pc' = "stored"
    /\ UNCHANGED <<sequences, blast_replies, use_blast, skip_blast, min_confidence,
                   high_confidence, matrix, error, conf_log, classification,
                   expression, blend>>
    /\ UNCHANGED <<reportVars, searchVars>>

\* step 8
BuildMatrix ==
    /\ pc = "stored"
    /\ IF build_matrix_error(Kept, min_confidence) # "none"
       THEN /\ error' = build_matrix_error(Kept, min_confidence)
            /\ pc' = "failed"
            /\ UNCHANGED matrix
       ELSE /\ matrix' \in build_matrix(Kept, min_confidence)
            /\ pc' = "built"
            /\ UNCHANGED error
    /\ UNCHANGED <<sequences, blast_replies, use_blast, skip_blast, min_confidence,
                   high_confidence, db, conf_log, classification, expression, blend>>
    /\ UNCHANGED <<reportVars, searchVars, insert_log>>

Next ==
    \/ NoSequences
    \/ AnnotateBatch
    \/ ValidateBatch
    \/ BlastStage
    \/ FilterByConfidence
    \/ InsertBatch
    \/ BuildMatrix

Spec == Init /\ [][Next]_vars

---------------------------------------------------------------------------
(* Scorer harness: classify_enzyme and the expression scorer applied to one *)
(* dict, to which evidence is then added a token at a time                 *)

DescTokens ==
    {"cellulase", "endo-1,4-beta-xylanase", "phenol", "oxidase", "GH5",
     "3.2.1.4", "midgut"}

TissueTokens == {"gut", "midgut"}

\* the text of a field that may be absent or None
Text(d, k) == IF Has(d, k) /\ ~IsNone(d, k) THEN d[k] ELSE <<>>

ScoreInputs ==
    LET base == Put(Put(EmptyDict, "accession", 1), "sequence", 0)
        withDescription == {base, PutNone(base, "description"),
                            Put(base, "description", <<>>)}
        withTissue == UNION {{d, PutNone(d, "tissue")} : d \in withDescription}
        withStage == UNION {{PutNone(d, "stage"), Put(d, "stage", <<"larval">>)} :
                               d \in withTissue}
    IN  UNION {{d, PutNone(d, "ec_number")} : d \in withStage}

ClassifyCall(d) ==
    [error |-> classify_enzyme_error(d),
     result |-> IF classify_enzyme_error(d) = "none" THEN classify_enzyme(d)
                ELSE NoClassification]

ExpressionCall(d) ==
    LET err == calculate_expression_score_error(d) IN
    [gut_error |-> is_gut_expressed_error(d),
     tissue_error |-> get_tissue_type_error(d),
     stage_error |-> get_developmental_stage_error(d),
     score_error |-> err,
     is_gut_expressed |->
         IF is_gut_expressed_error(d) = "none" THEN is_gut_expressed(d) ELSE FALSE,
     tissue_type |->
         IF get_tissue_type_error(d) = "none" THEN get_tissue_type(d) ELSE NONE,
     stage |->
         IF get_developmental_stage_error(d) = "none"
         THEN get_developmental_stage(d) ELSE NONE,
     score |-> IF err = "none" THEN calculate_expression_score(d) ELSE 0]

InitScore ==
    /\ pc = "score_input"
    /\ \E d \in ScoreInputs : sequences = <<d>>
    /\ blast_replies = <<>>
    /\ use_blast = FALSE
    /\ skip_blast = TRUE
    /\ min_confidence = 0
    /\ high_confidence = <<>>
    /\ db = <<>>
    /\ matrix = <<>>
    /\ error = "none"
    /\ conf_log = <<>>
    /\ classification = NoScore
    /\ expression = NoExpression
    /\ blend = NoBlend
    /\ ReportIdle
    /\ SearchIdle
    /\ insert_log = <<>>

\* the scorers applied to the dict d
Rescore(d) ==
    /\ sequences' = <<d>>
    /\ classification' = ClassifyCall(d)
    /\ expression' = ExpressionCall(d)
    /\ pc' = "scored"
    /\ UNCHANGED <<blast_replies, use_blast, skip_blast, min_confidence,
                   high_confidence, db, matrix, error, conf_log, blend>>
    /\ UNCHANGED <<reportVars, searchVars, insert_log>>

ScoreCall ==
    /\ pc = "score_input"
    /\ Rescore(sequences[1])

AddDescriptionToken ==
    /\ pc = "scored"
    /\ Len(Text(sequences[1], "description")) < MaxDescLen
    /\ \E tok \in DescTokens :
          Rescore(Put(sequences[1], "description",
                      Append(Text(sequences[1], "description"), tok)))

AddTissueToken ==
    /\ pc = "scored"
    /\ \E tok \in TissueTokens :
          /\ tok \notin Range(Text(sequences[1], "tissue"))
          /\ Rescore(Put(sequences[1], "tissue",
                         Append(Text(sequences[1], "tissue"), tok)))

SetEcNumber ==
    /\ pc = "scored"
    /\ ~Has(sequences[1], "ec_number") \/ IsNone(sequences[1], "ec_number")
    /\ Rescore(Put(sequences[1], "ec_number", "3.2.1.4"))

NextScore ==
    \/ ScoreCall
    \/ AddDescriptionToken
    \/ AddTissueToken
    \/ SetEcNumber

SpecScore == InitScore /\ [][NextScore]_vars

---------------------------------------------------------------------------
(* Blend harness: the two blends applied to the same three scores in both  *)
(* orders                                                                  *)

ScoreGrid == {(k * ONE) \div 10 : k \in 0..10}

InitBlend ==
    /\ pc = "blend_input"
    /\ sequences = <<>>
    /\ blast_replies = <<>>
    /\ use_blast = FALSE
    /\ skip_blast = TRUE
    /\ min_confidence = 0
    /\ high_confidence = <<>>
    /\ db = <<>>
    /\ matrix = <<>>
    /\ error = "none"
    /\ conf_log = <<>>
    /\ classification = NoScore
    /\ expression = NoExpression
    /\ \E old \in ScoreGrid, expr \in ScoreGrid, hom \in ScoreGrid :
          blend = [NoBlend EXCEPT !.old = old, !.expr = expr, !.hom = hom]
    /\ ReportIdle
    /\ SearchIdle
    /\ insert_log = <<>>

\* the pipeline's order: validate_batch, then annotate_with_blast
ExpressionThenHomology ==
    /\ pc = "blend_input"
    /\ "fwd" \notin blend.done
    /\ blend' = [blend EXCEPT
                   !.first = BlendExpression(blend.old, blend.expr),
                   !.fwd = BlendHomology(BlendExpression(blend.old, blend.expr),
                                         blend.hom),
                   !.done = @ \cup {"fwd"}]
    /\ UNCHANGED <<pc, sequences, blast_replies, use_blast, skip_blast,
                   min_confidence, high_confidence, db, matrix, error, conf_log,
                   classification, expression>>
    /\ UNCHANGED <<reportVars, searchVars, insert_log>>

\* the reverse order
HomologyThenExpression ==
    /\ pc = "blend_input"
    /\ "rev" \notin blend.done
    /\ blend' = [blend EXCEPT
                   !.rev = BlendExpression(BlendHomology(blend.old, blend.hom),
                                           blend.expr),
                   !.done = @ \cup {"rev"}]
    /\ UNCHANGED <<pc, sequences, blast_replies, use_blast, skip_blast,
                   min_confidence, high_confidence, db, matrix, error, conf_log,
                   classification, expression>>
    /\ UNCHANGED <<reportVars, searchVars, insert_log>>

NextBlend ==
    \/ ExpressionThenHomology
    \/ HomologyThenExpression

SpecBlend == InitBlend /\ [][NextBlend]_vars

---------------------------------------------------------------------------
(* Matrix harness: build_matrix applied to any list of scored candidates   *)

\* final confidences, two of them closer than a thousandth and one less than
\* half a thousandth under 0.8
MatrixConfidences ==
    {0, (ONE \div 10000) * 5001, (ONE \div 10000) * 5004,
     (ONE \div 10000) * 7996, (ONE \div 10) * 8, ONE}

MatrixThresholds == {0, ONE \div 2, (ONE \div 10) * 11}

MatrixInputs ==
    LET scored == {[has |-> TRUE, confidence |-> c] : c \in MatrixConfidences}
                  \cup {[has |-> FALSE, confidence |-> 0]}
    IN  SeqsUpTo(scored, MaxCands)

InitMatrix ==
    /\ pc = "matrix_input"
    /\ \E in \in MatrixInputs :
          sequences = [i \in 1..Len(in) |->
                         LET d == Put(EmptyDict, "accession", i) IN
                         IF in[i].has THEN Put(d, "confidence", in[i].confidence)
                         ELSE d]
    /\ blast_replies = <<>>
    /\ use_blast = FALSE
    /\ skip_blast = TRUE
    /\ min_confidence \in MatrixThresholds
    /\ high_confidence = <<>>
    /\ db = <<>>
    /\ matrix = <<>>
    /\ error = "none"
    /\ conf_log = <<>>
    /\ classification = NoScore
    /\ expression = NoExpression
    /\ blend = NoBlend
    /\ ReportIdle
    /\ SearchIdle
    /\ insert_log = <<>>

BuildMatrixCall ==
    /\ pc = "matrix_input"
    /\ IF build_matrix_error(sequences, min_confidence) # "none"
       THEN /\ error' = build_matrix_error(sequences, min_confidence)
            /\ pc' = "matrix_failed"
            /\ UNCHANGED matrix
       ELSE /\ matrix' \in build_matrix(sequences, min_confidence)
            /\ pc' = "matrix_built"
            /\ UNCHANGED error
    /\ UNCHANGED <<sequences, blast_replies, use_blast, skip_blast, min_confidence,
                   high_confidence, db, conf_log, classification, expression, blend>>
    /\ UNCHANGED <<reportVars, searchVars, insert_log>>

\* generate_summary called on what build_matrix made of the candidates: the
\* matrix it returned, or the frame of no rows, pd.DataFrame([]), that its
\* line 66 makes when no candidate is kept
GenerateSummaryCall ==
    /\ pc \in {"matrix_built", "matrix_failed"}
    /\ IF generate_summary_error(matrix) # "none"
       THEN /\ summary' = [NoSummary EXCEPT !.error = generate_summary_error(matrix)]
            /\ pc' = "summary_failed"
       ELSE /\ summary' = generate_summary(matrix)
            /\ pc' = "summarised"
    /\ UNCHANGED <<sequences, blast_replies, use_blast, skip_blast, min_confidence,
                   high_confidence, db, matrix, error, conf_log, classification,
                   expression, blend, clusters, ranked, exported, searchVars,
                   insert_log>>

NextMatrix ==
    \/ BuildMatrixCall
    \/ GenerateSummaryCall

SpecMatrix == InitMatrix /\ [][NextMatrix]_vars

-------------------------------------------------------------------------------------------------------------------------------------------
(* Report harness: the consumers of a matrix applied to the matrix of any  *)
(* list of candidates with an enzyme type                                  *)

\* enzyme_type values: the configured types, annotate_batch's "unknown", a type
\* no table knows, None and no key at all
TypedCandidates ==
    LET base == Put(Put(EmptyDict, "confidence", ONE \div 2), "sequence", 0) IN
    {Put(base, "enzyme_type", t) :
         t \in Range(EnzymeTypeOrder) \cup {"unknown", "lipase"}}
    \cup {base, PutNone(base, "enzyme_type")}

InitReport ==
    /\ pc = "report_input"
    /\ \E in \in SeqsUpTo(TypedCandidates, MaxCands) :
          sequences = [i \in 1..Len(in) |-> Put(in[i], "accession", i)]
    /\ blast_replies = <<>>
    /\ use_blast = FALSE
    /\ skip_blast = TRUE
    /\ min_confidence = 0
    /\ high_confidence = <<>>
    /\ db = <<>>
    /\ matrix = <<>>
    /\ error = "none"
    /\ conf_log = <<>>
    /\ classification = NoScore
    /\ expression = NoExpression
    /\ blend = NoBlend
    /\ ReportIdle
    /\ SearchIdle
    /\ insert_log = <<>>

\* build_matrix on the candidates
ReportBuildMatrix ==
    /\ pc = "report_input"
    /\ IF build_matrix_error(sequences, min_confidence) # "none"
       THEN /\ error' = build_matrix_error(sequences, min_confidence)
            /\ pc' = "report_no_rows"
            /\ UNCHANGED matrix
       ELSE /\ matrix' \in build_matrix(sequences, min_confidence)
            /\ pc' = "report_matrix"
            /\ UNCHANGED error
    /\ UNCHANGED <<sequences, blast_replies, use_blast, skip_blast, min_confidence,
                   high_confidence, db, conf_log, classification, expression, blend,
                   reportVars, searchVars, insert_log>>

\* the frame the consumers are given: the matrix, or the frame of no rows
ReportFrameReady == pc \in {"report_matrix", "report_no_rows"}

IdentifyClustersCall ==
    /\ ReportFrameReady
    /\ clusters' = identify_enzyme_clusters(matrix)
    /\ pc' = "clustered"
    /\ UNCHANGED <<sequences, blast_replies, use_blast, skip_blast, min_confidence,
                   high_confidence, db, matrix, error, conf_log, classification,
                   expression, blend, summary, ranked, exported, searchVars,
                   insert_log>>

RankByCriteriaCall ==
    /\ ReportFrameReady
    /\ \E criteria \in (RankCriteria \cup {"homology"}) :
          IF rank_by_criteria_error(matrix, criteria) # "none"
          THEN ranked' = [criteria |-> criteria,
                          error |-> rank_by_criteria_error(matrix, criteria),
                          returned |-> FALSE, rows |-> <<>>]
          ELSE \E rows \in rank_by_criteria(matrix, criteria) :
                  ranked' = [criteria |-> criteria, error |-> "none",
                             returned |-> TRUE, rows |-> rows]
    /\ matrix' = IF ranked'.error = "none"
                 THEN rank_by_criteria_frame(matrix, ranked'.criteria)
                 ELSE matrix
    /\ pc' = "ranked"
    /\ UNCHANGED <<sequences, blast_replies, use_blast, skip_blast, min_confidence,
                   high_confidence, db, error, conf_log, classification,
                   expression, blend, summary, clusters, exported, searchVars,
                   insert_log>>

ExportMatrixCall ==
    /\ ReportFrameReady
    /\ \E format \in (ExportFormats \cup {"xml"}) :
          exported' = [format |-> format, error |-> export_matrix_error(format),
                       written |-> export_matrix_error(format) = "none"]
    /\ pc' = "exported"
    /\ UNCHANGED <<sequences, blast_replies, use_blast, skip_blast, min_confidence,
                   high_confidence, db, matrix, error, conf_log, classification,
                   expression, blend, summary, clusters, ranked, searchVars,
                   insert_log>>

NextReport ==
    \/ ReportBuildMatrix
    \/ IdentifyClustersCall
    \/ RankByCriteriaCall
    \/ ExportMatrixCall

SpecReport == InitReport /\ [][NextReport]_vars

---------------------------------------------------------------------------
(* Storage harness: any sequence of insert_sequence and insert_batch calls *)

StoreInputs ==
    LET base == Put(EmptyDict, "sequence", 0)
        keyed == {Put(base, "accession", a) : a \in 1..2} \cup {PutNone(base, "accession")}
        typed == {Put(d, "enzyme_type", t) : d \in keyed, t \in {"cellulase", "laccase"}}
    IN  {Put(d, "confidence", c) : d \in typed, c \in {ONE \div 2, ONE}}

InitStore ==
    /\ pc = "store"
    /\ sequences = <<>>
    /\ blast_replies = <<>>
    /\ use_blast = FALSE
    /\ skip_blast = TRUE
    /\ min_confidence = 0
    /\ high_confidence = <<>>
    /\ db = <<>>
    /\ matrix = <<>>
    /\ error = "none"
    /\ conf_log = <<>>
    /\ classification = NoScore
    /\ expression = NoExpression
    /\ blend = NoBlend
    /\ ReportIdle
    /\ SearchIdle
    /\ insert_log = <<>>

InsertSequenceCall ==
    /\ pc = "store"
    /\ Len(insert_log) < MaxInserts
    /\ \E d \in StoreInputs :
          /\ db' = insert_sequence(db, d)
          /\ error' = insert_sequence_error(db, d)
          /\ insert_log' = Append(insert_log, d)
    /\ UNCHANGED <<pc, sequences, blast_replies, use_blast, skip_blast,
                   min_confidence, high_confidence, matrix, conf_log, classification,
                   expression, blend, reportVars, searchVars>>

InsertBatchCall ==
    /\ pc = "store"
    /\ \E seqs \in SeqsUpTo(StoreInputs, MaxCands) :
          /\ seqs # <<>>
          /\ Len(insert_log) + Len(seqs) <= MaxInserts
          /\ db' = insert_batch(db, seqs)
          /\ error' = "none"
          /\ insert_log' = insert_log \o seqs
    /\ UNCHANGED <<pc, sequences, blast_replies, use_blast, skip_blast,
                   min_confidence, high_confidence, matrix, conf_log, classification,
                   expression, blend, reportVars, searchVars>>

NextStore ==
    \/ InsertSequenceCall
    \/ InsertBatchCall

SpecStore == InitStore /\ [][NextStore]_vars

---------------------------------------------------------------------------
(* Search harness: steps 1 and 2 of run_pipeline for any organism          *)
(* argument, any max_results and any sizes of the search results           *)

InitSearch ==
    /\ pc = "search"
    /\ organism \in {PRIMARY_ORGANISM, "Reticulitermes flavipes"}
    /\ max_results \in 0..MaxResults
    /\ search_results = <<>>
    /\ all_ids = <<>>
    /\ sequences = <<>>
    /\ blast_replies = <<>>
    /\ use_blast = FALSE
    /\ skip_blast = TRUE
    /\ min_confidence = 0
    /\ high_confidence = <<>>
    /\ db = <<>>
    /\ matrix = <<>>
    /\ error = "none"
    /\ conf_log = <<>>
    /\ classification = NoScore
    /\ expression = NoExpression
    /\ blend = NoBlend
    /\ ReportIdle
    /\ insert_log = <<>>

\* step 1, lines 72-87
SearchNcbi ==
    /\ pc = "search"
    /\ \E sizes \in [1..Len(SearchedOrganisms) -> 0..MaxIds] :
          /\ search_results' = search_all_organisms(sizes)
          /\ all_ids' = CollectIds(search_all_organisms(sizes), max_results)
          /\ pc' = IF CollectIds(search_all_organisms(sizes), max_results) = <<>>
                   THEN "done" ELSE "searched"
    /\ UNCHANGED <<sequences, blast_replies, use_blast, skip_blast, min_confidence,
                   high_confidence, db, matrix, error, conf_log, classification,
                   expression, blend, reportVars, organism, max_results, insert_log>>

\* step 2, lines 91-100; fetched are the ids for which retrieve_and_parse gives
\* a record
RetrieveSequences ==
    /\ pc = "searched"
    /\ \E fetched \in SUBSET Range(RetrievalIds(all_ids, max_results)) :
          /\ sequences' = retrieve_batch(RetrievalIds(all_ids, max_results), fetched)
          /\ pc' = IF fetched = {} THEN "done" ELSE "retrieved"
    /\ UNCHANGED <<blast_replies, use_blast, skip_blast, min_confidence,
                   high_confidence, db, matrix, error, conf_log, classification,
                   expression, blend, reportVars, searchVars, insert_log>>

NextSearch ==
    \/ SearchNcbi
    \/ RetrieveSequences

SpecSearch == InitSearch /\ [][NextSearch]_vars

---------------------------------------------------------------------------
(* Extraction harness: classify_enzyme on records whose description holds  *)
(* family codes in any letter case and EC numbers, then annotate_batch's   *)
(* loop body and classify_enzyme once more on the annotated record         *)

ExtractInputs ==
    LET words == {"gh5", "GH5", "Gh5", "GH9", "aa1", "3.2.1.4", "1.10.3.2",
                  "cellulase"}
        described == {Put(Put(Put(EmptyDict, "accession", 1), "sequence", 0),
                          "description", text) :
                          text \in SeqsUpTo(words, MaxDescLen)}
    IN  described
        \cup {PutNone(d, "ec_number") : d \in described}
        \cup {Put(d, "ec_number", ec) :
                 d \in described, ec \in {"", "3.2.1.4", "3.2.1.-"}}

InitExtract ==
    /\ pc = "extract_input"
    /\ \E d \in ExtractInputs : sequences = <<d>>
    /\ blast_replies = <<>>
    /\ use_blast = FALSE
    /\ skip_blast = TRUE
    /\ min_confidence = 0
    /\ high_confidence = <<>>
    /\ db = <<>>
    /\ matrix = <<>>
    /\ error = "none"
    /\ conf_log = <<>>
    /\ classification = NoScore
    /\ expression = NoExpression
    /\ blend = NoBlend
    /\ ReportIdle
    /\ SearchIdle
    /\ insert_log = <<>>

\* classify_enzyme on the record
ExtractCall ==
    /\ pc = "extract_input"
    /\ classification' = ClassifyCall(sequences[1])
    /\ pc' = "extracted"
    /\ UNCHANGED <<sequences, blast_replies, use_blast, skip_blast, min_confidence,
                   high_confidence, db, matrix, error, conf_log, expression, blend,
                   reportVars, searchVars, insert_log>>

\* annotate_batch's loop body on the record, which keeps the first result in
\* the record's "annotation", then classify_enzyme on the annotated record
ExtractAgain ==
    /\ pc = "extracted"
    /\ classification.error = "none"
    /\ sequences' \in {<<a>> : a \in AnnotateOutcomes(sequences[1])}
    /\ classification' = ClassifyCall(sequences'[1])
    /\ pc' = "extracted_again"
    /\ UNCHANGED <<blast_replies, use_blast, skip_blast, min_confidence,
                   high_confidence, db, matrix, error, conf_log, expression, blend,
                   reportVars, searchVars, insert_log>>

NextExtract ==
    \/ ExtractCall
    \/ ExtractAgain

SpecExtract == InitExtract /\ [][NextExtract]_vars

---------------------------------------------------------------------------
(* Scorer harness on drawn arguments: calculate_expression_score and the   *)
(* resolvers on a record whose tissue, stage and description hold tissue   *)
(* and stage terms, and calculate_confidence on a classification result    *)

\* records as parse_genbank_record leaves them, with the fields the resolvers
\* read: tissue and description of up to MaxDescLen words, stage of one word
ExpressInputs ==
    LET base == Put(Put(EmptyDict, "accession", 1), "sequence", 0)
        tissues == SeqsUpTo({"Midgut", "foregut", "hindgut", "digestive"}, MaxDescLen)
        stages == SeqsUpTo({"larval", "larva", "adult", "pupal"}, 1)
        texts == SeqsUpTo({"larval", "adult", "pupal", "midgut"}, MaxDescLen)
    IN  {Put(Put(Put(base, "tissue", t), "stage", g), "description", x) :
            t \in tissues, g \in stages, x \in texts}

\* classification results as classify_enzyme has them before the confidence is
\* computed: the keywords found, the types and match ratios that follow from
\* them (lines 66-74), and any EC numbers, family codes and gut flag
ConfidenceInputs ==
    LET words == {<<"cellulase">>, <<"endoglucanase">>, <<"cellobiohydrolase">>,
                  <<"xylanase">>, <<"endo-1,4-beta-xylanase">>, <<"laccase">>}
        founds == {K \in SUBSET words :
                      <<"endo-1,4-beta-xylanase">> \in K => <<"xylanase">> \in K}
        matches(K, t) == Cardinality(K \cap ENZYME_KEYWORDS(t))
        types(K) == SelectSeq(EnzymeTypeOrder, LAMBDA t : matches(K, t) > 0)
    IN  {[enzyme_types |-> types(K),
          enzyme_scores |-> [t \in Range(types(K)) |->
                                (matches(K, t) * ONE) \div Cardinality(ENZYME_KEYWORDS(t))],
          gh_families |-> gh, ec_numbers |-> ec, confidence |-> 0,
          is_gut_expressed |-> gut, keywords_found |-> K] :
            K \in founds, gh \in {{}, {"GH5"}}, ec \in {{}, {"3.2.1.4"}},
            gut \in BOOLEAN}

InitUnits ==
    /\ \/ /\ pc = "expression_input"
          /\ \E d \in ExpressInputs : sequences = <<d>>
          /\ classification = NoScore
       \/ /\ pc = "confidence_input"
          /\ sequences = <<Put(Put(EmptyDict, "accession", 1), "sequence", 0)>>
          /\ \E c \in ConfidenceInputs :
                classification = [error |-> "none", result |-> c]
    /\ blast_replies = <<>>
    /\ use_blast = FALSE
    /\ skip_blast = TRUE
    /\ min_confidence = 0
    /\ high_confidence = <<>>
    /\ db = <<>>
    /\ matrix = <<>>
    /\ error = "none"
    /\ conf_log = <<>>
    /\ expression = NoExpression
    /\ blend = NoBlend
    /\ ReportIdle
    /\ SearchIdle
    /\ insert_log = <<>>

\* is_gut_expressed, get_tissue_type, get_developmental_stage and
\* calculate_expression_score on the record
CalculateExpressionScoreCall ==
    /\ pc = "expression_input"
    /\ expression' = ExpressionCall(sequences[1])
    /\ pc' = "expression_scored"
    /\ UNCHANGED <<sequences, blast_replies, use_blast, skip_blast, min_confidence,
                   high_confidence, db, matrix, error, conf_log, classification,
                   blend, reportVars, searchVars, insert_log>>

\* classification["confidence"] = calculate_confidence(sequence_data, classification)
CalculateConfidenceCall ==
    /\ pc = "confidence_input"
    /\ classification' =
          [classification EXCEPT !.result.confidence =
              calculate_confidence(sequences[1], classification.result)]
    /\ pc' = "confidence_scored"
    /\ UNCHANGED <<sequences, blast_replies, use_blast, skip_blast, min_confidence,
                   high_confidence, db, matrix, error, conf_log, expression,
                   blend, reportVars, searchVars, insert_log>>

NextUnits ==
    \/ CalculateExpressionScoreCall
    \/ CalculateConfidenceCall

SpecUnits == InitUnits /\ [][NextUnits]_vars

-----------
(* Properties of the pipeline (Spec)                                       *)

Cands == 1..Len(sequences)

\* line 111 of main.py: the homology stage runs
BlastRuns == ~skip_blast /\ use_blast

AfterBlast == {"blasted", "filtered", "stored", "built"}

StageOrder == <<"classification", "expression", "homology">>

\* the value the last write left, 0 when nothing was written
LastWritten(i) ==
    IF conf_log[i] = <<>> THEN 0 ELSE conf_log[i][Len(conf_log[i])].value

\* C1: after every stage that writes a confidence (classification, the
\* expression blend, the homology blend) each candidate's confidence lies in
\* the closed interval from 0 to 1.
C1_ConfidenceInUnitInterval ==
    \A i \in Cands :
        Has(sequences[i], "confidence") =>
            /\ 0 <= sequences[i].confidence
            /\ sequences[i].confidence <= ONE

\* a candidate that went through all three writes and ended above one half
C1_Witness ==
    /\ pc = "blasted"
    /\ BlastRuns
    /\ \E i \in Cands :
          /\ Len(conf_log[i]) = 3
          /\ sequences[i].blast_score = ONE
          /\ sequences[i].confidence > ONE \div 2

\* the writes of candidate i: in stage order, each value made from the one
\* before it, the candidate carrying the last one; blended says whether the
\* homology write is due once the homology step is over
StageWrites(i, blended) ==
    LET log == conf_log[i]
        d == sequences[i]
        n == Len(log)
    IN  /\ n <= 3
        /\ \A k \in 1..n : log[k].stage = StageOrder[k]
        /\ n >= 1 => log[1].value = d.annotation.confidence
        /\ n >= 2 => log[2].value = BlendExpression(log[1].value, d.expression_score)
        /\ n = 3 => /\ BlastRuns
                    /\ log[3].value = BlendHomology(log[2].value, d.blast_score)
        /\ n >= 1 => d.confidence = log[n].value
        /\ pc = "annotated" => n = 1
        /\ pc = "validated" => n = 2
        /\ pc \in AfterBlast => n = IF blended THEN 3 ELSE 2

\* the filter and the matrix work on the last value written
ReadersSeeLastWrite ==
    /\ pc \in {"filtered", "stored", "built"} =>
          high_confidence =
              SelectSeq([i \in Cands |-> i], LAMBDA i : LastWritten(i) >= min_confidence)
    /\ pc = "built" =>
          /\ Len(matrix) = Len(high_confidence)
          /\ \A k \in 1..Len(matrix) :
                matrix[k].Confidence = Round3(LastWritten(matrix[k].GeneID))

\* C4 as stated: confidence is written in stage order, classification, then
\* one expression blend, then one homology blend exactly when the homology
\* stage is enabled, each blend on the value the stage before left; the filter
\* and the matrix read the last value.
C4_Original ==
    /\ \A i \in Cands : StageWrites(i, BlastRuns)
    /\ ReadersSeeLastWrite

\* C4: confidence is written in stage order, classification, then one
\* expression blend, then one homology blend exactly when the homology stage
\* is enabled and the candidate's sequence has at least 50 characters, each
\* blend on the value the stage before left; the filter and the matrix read
\* the last value.
C4_StageOrder ==
    /\ \A i \in Cands : StageWrites(i, BlastRuns /\ BlastAsks(sequences[i]))
    /\ ReadersSeeLastWrite

\* a finished run in which one candidate had three different values written
C4_Witness ==
    /\ pc = "built"
    /\ BlastRuns
    /\ \E i \in Cands :
          /\ Len(conf_log[i]) = 3
          /\ conf_log[i][1].value # conf_log[i][2].value
          /\ conf_log[i][2].value # conf_log[i][3].value
          /\ \E k \in 1..Len(matrix) : matrix[k].GeneID = i

\* C5: after validate_batch every candidate that carried a confidence has
\* confidence = old * 0.7 + expression_score * 0.3, old being the value
\* classification left and expression_score the score attached to it.
C5_ExpressionBlend ==
    /\ \A i \in Cands :
          Len(conf_log[i]) >= 2 =>
              /\ Has(sequences[i], "expression_score")
              /\ conf_log[i][2].value =
                    (7 * conf_log[i][1].value + 3 * sequences[i].expression_score)
                        \div 10
    /\ pc = "validated" =>
          \A i \in Cands : /\ Len(conf_log[i]) = 2
                           /\ sequences[i].confidence = conf_log[i][2].value

\* validate_batch has moved a candidate's confidence
C5_Witness ==
    /\ pc = "validated"
    /\ \E i \in Cands :
          /\ sequences[i].expression_score > 0
          /\ conf_log[i][1].value > 0
          /\ sequences[i].confidence # conf_log[i][1].value

\* C6 as stated: after annotate_with_blast every candidate with a confidence
\* and an attached blast_score has confidence = old * 0.6 + blast_score * 0.4;
\* when the homology stage does not run the confidence stays what it was.
C6_Original ==
    pc \in AfterBlast =>
        \A i \in Cands :
            IF BlastRuns
            THEN /\ Has(sequences[i], "blast_score")
                 /\ sequences[i].confidence =
                       (6 * conf_log[i][2].value + 4 * sequences[i].blast_score)
                           \div 10
            ELSE sequences[i].confidence = conf_log[i][2].value

\* C6: after annotate_with_blast every candidate with a confidence whose
\* sequence has at least 50 characters has confidence = old * 0.6 +
\* blast_score * 0.4; a candidate with a shorter sequence gets blast_score 0
\* and no hits and keeps its confidence; when the homology stage does not run
\* the confidence stays what it was and no blast_score is attached.
C6_HomologyBlend ==
    pc \in AfterBlast =>
        \A i \in Cands :
            LET d == sequences[i]
                old == conf_log[i][2].value
            IN  IF ~BlastRuns
                THEN d.confidence = old /\ ~Has(d, "blast_score")
                ELSE IF BlastAsks(d)
                THEN /\ Has(d, "blast_score")
                     /\ d.blast_score = calculate_homology_score(d.blast_hits)
                     /\ d.confidence = (6 * old + 4 * d.blast_score) \div 10
                ELSE /\ Has(d, "blast_score")
                     /\ d.blast_score = 0
                     /\ d.blast_hits = <<>>
                     /\ d.confidence = old

\* the homology stage has run on a long candidate with a hit and a short one
C6_Witness ==
    /\ pc = "blasted"
    /\ BlastRuns
    /\ \E i, j \in Cands :
          /\ BlastAsks(sequences[i])
          /\ sequences[i].blast_score > 0
          /\ sequences[i].confidence # conf_log[i][2].value
          /\ ~BlastAsks(sequences[j])
          /\ sequences[j].confidence > 0

---------------------------------------------------------------------------
(* Properties of the scorers (SpecScore)                                   *)

ScoredTwice ==
    /\ pc = "scored"
    /\ pc' = "scored"
    /\ classification.error = "none"
    /\ classification'.error = "none"

\* the step took no evidence away
EvidenceGrows ==
    /\ classification.result.keywords_found \subseteq
          classification'.result.keywords_found
    /\ classification.result.ec_numbers \subseteq classification'.result.ec_numbers
    /\ classification.result.gh_families \subseteq classification'.result.gh_families
    /\ classification.result.is_gut_expressed =>
          classification'.result.is_gut_expressed

\* C2 as stated: adding evidence (a matched keyword, an EC number, a family
\* code, the gut flag) to a record never lowers its classification
\* confidence, and the result never exceeds 1.
C2_Original ==
    [][(ScoredTwice /\ EvidenceGrows) =>
          /\ classification'.result.confidence >= classification.result.confidence
          /\ classification'.result.confidence <= ONE]_vars

\* C2: adding an EC number, a family code or the gut flag never lowers the
\* classification confidence, and adding a matched keyword never lowers it
\* when the record matches the same enzyme types afterwards or matched none
\* before; the result never exceeds 1.
C2_MonotoneWithinTypes ==
    [][(ScoredTwice /\ EvidenceGrows) =>
          /\ (\/ classification'.result.enzyme_types =
                    classification.result.enzyme_types
              \/ classification.result.enzyme_types = <<>>) =>
                 classification'.result.confidence >=
                     classification.result.confidence
          /\ classification'.result.confidence <= ONE]_vars

\* a record scored with every kind of evidence on it
C2_Witness ==
    /\ pc = "scored"
    /\ classification.error = "none"
    /\ Len(Text(sequences[1], "description")) = MaxDescLen
    /\ classification.result.keywords_found # {}
    /\ classification.result.gh_families # {}
    /\ classification.result.ec_numbers # {}
    /\ classification.result.is_gut_expressed

\* the gut terms in the evidence classify_enzyme reads
GutTermsIn(d) ==
    {g \in Range(GUT_TISSUES) :
        Contains(Text(d, "tissue"), g) \/ Contains(Text(d, "description"), g)}

\* C3: adding a gut-tissue term that was absent from a record's evidence never
\* lowers its classification confidence.
C3_GutTermNeverLowers ==
    [][(/\ ScoredTwice
        /\ GutTermsIn(sequences[1]) \subseteq GutTermsIn(sequences'[1])
        /\ GutTermsIn(sequences[1]) # GutTermsIn(sequences'[1])) =>
          classification'.result.confidence >= classification.result.confidence]_vars

\* a record scored after a gut term was put in its tissue field
C3_Witness ==
    /\ pc = "scored"
    /\ classification.error = "none"
    /\ Len(Text(sequences[1], "tissue")) >= 1
    /\ classification.result.is_gut_expressed
    /\ classification.result.enzyme_types # <<>>

\* C10: classify_enzyme, is_gut_expressed, get_tissue_type,
\* get_developmental_stage and calculate_expression_score raise on no record,
\* whichever of its text fields are absent or None.
C10_ScorersNeverRaise ==
    pc = "scored" =>
        /\ classification.error = "none"
        /\ expression.gut_error = "none"
        /\ expression.tissue_error = "none"
        /\ expression.stage_error = "none"
        /\ expression.score_error = "none"

---------------------------------------------------------------------------
(* Properties of the blends (SpecBlend)                                    *)

BothOrdersDone == blend.done = {"fwd", "rev"}

\* old = 0.9, expression score = 0.1, homology score = 0.1
BlendExample ==
    /\ blend.old = (ONE \div 10) * 9
    /\ blend.expr = ONE \div 10
    /\ blend.hom = ONE \div 10

\* C7 as stated: from 0.9 with expression 0.1 and homology 0.1 the pipeline's
\* order gives 0.66 and then 0.436, and the reverse order does not give 0.436.
C7_Original ==
    (BothOrdersDone /\ BlendExample) =>
        /\ blend.first = (ONE \div 100) * 66
        /\ blend.fwd = (ONE \div 1000) * 436
        /\ blend.rev # (ONE \div 1000) * 436

\* C7: from 0.9 with expression 0.1 and homology 0.1 the pipeline's order gives
\* 0.66 and then 0.436 and the reverse order gives 0.436 as well; the two
\* orders give different results exactly when the expression score and the
\* homology score differ.
C7_OrdersDifferIffScoresDiffer ==
    BothOrdersDone =>
        /\ BlendExample =>
              /\ blend.first = (ONE \div 100) * 66
              /\ blend.fwd = (ONE \div 1000) * 436
              /\ blend.rev = (ONE \div 1000) * 436
        /\ blend.fwd # blend.rev <=> blend.expr # blend.hom

\* both orders applied to the example
C7_Witness == BothOrdersDone /\ BlendExample

---------------------------------------------------------------------------
(* Properties of the matrix (SpecMatrix)                                   *)

MatrixCallOver == pc \in {"matrix_built", "matrix_failed"}

\* C8: build_matrix raises nothing and returns as many rows as there are input
\* candidates whose confidence (0 when missing) is at least the threshold, so
\* no rows when none reaches it.
C8_RowCount ==
    MatrixCallOver =>
        /\ error = "none"
        /\ Len(matrix) =
              Cardinality({i \in Cands :
                              Get(sequences[i], "confidence", 0) >= min_confidence})

\* C9: the rows are the kept candidates in descending order of their final
\* confidence, candidates of equal confidence in their input order.
C9_StableDescending ==
    pc = "matrix_built" =>
        \A a, b \in 1..Len(matrix) :
            a < b =>
                LET x == Get(sequences[matrix[a].GeneID], "confidence", 0)
                    y == Get(sequences[matrix[b].GeneID], "confidence", 0)
                IN  \/ x > y
                    \/ x = y /\ matrix[a].GeneID < matrix[b].GeneID

---------------------------------------------------------------------------
(* Properties of generate_summary (SpecMatrix)                             *)

SummaryCallOver == pc \in {"summarised", "summary_failed"}

\* C11: when no candidate reaches the threshold, generate_summary on what
\* build_matrix left raises nothing and reports no enzymes: both totals 0, the
\* four distributions empty, the three counts 0, the average confidence 0.
C11_EmptySummary ==
    (SummaryCallOver /\ MatrixFiltered(sequences, min_confidence) = <<>>) =>
        /\ summary.error = "none"
        /\ summary.total_enzymes = 0
        /\ summary.unique_enzyme_types = 0
        /\ summary.enzyme_distribution = <<>>
        /\ summary.tissue_distribution = <<>>
        /\ summary.stage_distribution = <<>>
        /\ summary.gh_family_distribution = <<>>
        /\ summary.avg_confidence = 0
        /\ summary.high_confidence_count = 0
        /\ summary.gut_expressed_count = 0
        /\ summary.larval_stage_count = 0

\* C16: the summary's total_enzymes is the number of rows of the matrix, and
\* its high_confidence_count is the number of rows whose candidate carries a
\* final confidence (the value the filter compared) of at least 0.8.
C16_HighConfidenceCount ==
    pc = "summarised" =>
        /\ summary.total_enzymes = Len(matrix)
        /\ summary.high_confidence_count =
              Cardinality({r \in 1..Len(matrix) :
                              Get(sequences[matrix[r].GeneID], "confidence", 0)
                                  >= (ONE \div 10) * 8})

---------------------------------------------------------------------------
(* Properties of the pipeline's empty runs (Spec)                          *)

\* C12: a run with an empty result set ends normally: when nothing was
\* retrieved the run returns, and when no candidate passed the threshold the
\* step after storing does not end the run with an exception.
C12_EmptyRunEndsNormally ==
    [][/\ (pc = "retrieved" /\ sequences = <<>>) => pc' = "done"
       /\ (pc = "stored" /\ high_confidence = <<>>) => (pc' # "failed" /\ error' = "none")
      ]_vars

---------------------------------------------------------------------------
(* Properties of the matrix's consumers (SpecReport)                       *)

\* C13: rank_by_criteria with a criteria other than overall, confidence,
\* expression and blast raises an invalid-argument error, and so does
\* export_matrix with a format other than csv, json and excel.
C13_UnknownArgumentRaises ==
    /\ (pc = "ranked"
          /\ ranked.criteria \notin {"overall", "confidence", "expression", "blast"})
          => (ranked.error = "ValueError" /\ ~ranked.returned)
    /\ (pc = "exported" /\ exported.format \notin {"csv", "json", "excel"})
          => (exported.error = "ValueError" /\ ~exported.written)

\* the buckets other than "Other"
NamedBuckets ==
    Range(clusters.cellulose) \cup Range(clusters.lignin)
        \cup Range(clusters.hemicellulose) \cup Range(clusters.oxidative)

\* C14: a row whose candidate has an enzyme type that is no key of the function
\* table (also "unknown", None or no type at all) has the fallback Function and
\* its gene id in "Other" only; a row whose type is a key has its gene id in
\* a bucket other than "Other" and not in "Other".
C14_FallbackIffOther ==
    pc = "clustered" =>
        \A r \in 1..Len(matrix) :
            LET d == sequences[matrix[r].GeneID]
                keyed == /\ Has(d, "enzyme_type")
                         /\ ~IsNone(d, "enzyme_type")
                         /\ d.enzyme_type \in
                               {"cellulase", "laccase", "peroxidase", "oxidase",
                                "xylanase", "beta-glucosidase", "mannanase"}
                id == matrix[r].GeneID
            IN  IF keyed
                THEN /\ id \in NamedBuckets
                     /\ id \notin Range(clusters.other)
                ELSE /\ matrix[r].Function = "Wood polymer degradation"
                     /\ id \in Range(clusters.other)
                     /\ id \notin NamedBuckets

C14_Witness ==
    /\ pc = "clustered"
    /\ clusters.other # <<>>
    /\ clusters.oxidative # <<>>
    /\ \E r \in 1..Len(matrix) : ~Has(sequences[matrix[r].GeneID], "enzyme_type")

---------------------------------------------------------------------------
(* Properties of the sequence table (SpecStore)                            *)

\* the inserts made so far that name an accession
Accessioned ==
    {k \in 1..Len(insert_log) :
        Has(insert_log[k], "accession") /\ ~IsNone(insert_log[k], "accession")}

\* the most recent insert of the accession of insert k
LastInsertOf(k) ==
    CHOOSE m \in Accessioned :
        /\ insert_log[m].accession = insert_log[k].accession
        /\ \A j \in Accessioned :
              insert_log[j].accession = insert_log[k].accession => j <= m

\* C15: after any sequence of insert_sequence and insert_batch calls the table
\* holds exactly one row for each accession inserted and none for any other,
\* the row carries the field values of the most recent insert of its
\* accession, and an insert that names an accession raises nothing.
C15_OneRowPerAccession ==
    /\ \A k \in Accessioned :
          LET last == insert_log[LastInsertOf(k)]
              rows == {i \in 1..Len(db) : db[i].accession = insert_log[k].accession}
          IN  /\ Cardinality(rows) = 1
              /\ \A i \in rows :
                    /\ db[i].enzyme_type = last.enzyme_type
                    /\ db[i].confidence = last.confidence
    /\ \A i \in 1..Len(db) : \E k \in Accessioned : insert_log[k].accession = db[i].accession
    /\ (insert_log # <<>> /\ Len(insert_log) \in Accessioned) => error = "none"

C15_Witness ==
    /\ Len(db) = 2
    /\ \E k, m \in Accessioned :
          /\ k < m
          /\ m = LastInsertOf(k)
          /\ insert_log[k].confidence # insert_log[m].confidence
          /\ insert_log[k].enzyme_type # insert_log[m].enzyme_type
          /\ \E i \in 1..Len(db) :
                /\ db[i].accession = insert_log[m].accession
                /\ db[i].confidence = insert_log[m].confidence

---------------------------------------------------------------------------
(* Properties of the family-code and EC extraction (SpecExtract)           *)

Extracted ==
    /\ pc \in {"extracted", "extracted_again"}
    /\ classification.error = "none"

\* the family code written in any letter case as one of the spellings
WrittenAs(spellings) ==
    \E k \in 1..Len(SearchText(sequences[1])) :
        SearchText(sequences[1])[k] \in spellings

\* C17: the family codes are found whatever their letter case and returned in
\* upper case without duplicates: a text holding "gh5", "GH5" or both gives
\* the one code "GH5".
C17_FamiliesUpperCased ==
    Extracted =>
        classification.result.gh_families =
            {code \in {"GH5", "GH9", "AA1"} :
                \/ code = "GH5" /\ WrittenAs({"gh5", "GH5", "Gh5"})
                \/ code = "GH9" /\ WrittenAs({"gh9", "GH9"})
                \/ code = "AA1" /\ WrittenAs({"aa1", "AA1"})}

C17_Witness ==
    /\ pc = "extracted"
    /\ WrittenAs({"gh5"})
    /\ WrittenAs({"GH5"})
    /\ classification.result.gh_families = {"GH5"}

\* the EC numbers of the ec_number field (when it holds a non-empty value) and
\* of the four-group dotted integers of the text
ExpectedEcNumbers ==
    (IF Has(sequences[1], "ec_number") /\ ~IsNone(sequences[1], "ec_number")
        /\ sequences[1].ec_number # ""
     THEN {sequences[1].ec_number} ELSE {})
    \cup {tok \in Range(SearchText(sequences[1])) : tok \in {"3.2.1.4", "1.10.3.2"}}

\* C18: the EC numbers are the value of the ec_number field, when there is one,
\* together with every four-group dotted integer of the text, each once; a
\* second classification, of the annotated record, gives the same set.
C18_EcNumbersIdempotent ==
    /\ Extracted => classification.result.ec_numbers = ExpectedEcNumbers
    /\ (pc = "extracted_again") =>
          classification.result.ec_numbers = sequences[1].annotation.ec_numbers

C18_Witness ==
    /\ pc = "extracted_again"
    /\ Has(sequences[1], "ec_number")
    /\ ~IsNone(sequences[1], "ec_number")
    /\ sequences[1].ec_number = "3.2.1.-"
    /\ classification.result.ec_numbers = {"3.2.1.-", "3.2.1.4", "1.10.3.2"}

---------------------------------------------------------------------------
(* Properties of the search and retrieval steps (SpecSearch)               *)

\* C19: whatever the searches return, the run retrieves and hands on at most
\* max_results sequences in total, over all the organisms searched.
C19_AtMostMaxResults ==
    /\ Len(sequences) <= max_results
    /\ pc \in {"retrieved", "done"} =>
          Len(RetrievalIds(all_ids, max_results)) <= max_results

C19_Witness ==
    /\ pc = "retrieved"
    /\ max_results > 0
    /\ Len(all_ids) > max_results
    /\ Len(sequences) = max_results
    /\ \E i \in 1..Len(search_results) :
          i > 1 /\ Len(search_results[i].id_list) > 0

\* C20: the organism given to run_pipeline is an organism the search queries.
C20_OrganismIsSearched ==
    search_results # <<>> =>
        \E i \in 1..Len(search_results) : search_results[i].organism = organism

---------------------------------------------------------------------------
(* Properties of the scorers on drawn arguments (SpecUnits)                *)

\* C21: the confidence is the sum, cut at 1.0, of the keyword weight times
\* min(keywords found / 5, 1), the EC weight if an EC number was found, the
\* family weight if a family code was found, the gut weight if gut-expressed
\* and 0.2 times the mean match ratio if a type matched; so five keywords
\* found give the whole keyword weight and one keyword a fifth of it.
C21_ConfidenceIsWeightedSum ==
    pc = "confidence_scored" =>
        LET c == classification.result
            n == Cardinality(c.keywords_found)
            keyword_term == IF n >= 5 THEN (CW_keyword_match * ONE) \div 100
                            ELSE (n * ((CW_keyword_match * ONE) \div 100)) \div 5
            ec_term == IF c.ec_numbers # {} THEN (CW_ec_match * ONE) \div 100 ELSE 0
            gh_term == IF c.gh_families # {} THEN (CW_gh_family_match * ONE) \div 100
                       ELSE 0
            gut_term == IF c.is_gut_expressed THEN (CW_gut_tissue * ONE) \div 100
                        ELSE 0
            ratios == c.enzyme_scores
            type_term ==
                IF c.enzyme_types # <<>>
                THEN (2 * (SumOver(DOMAIN ratios, ratios)
                              \div Cardinality(DOMAIN ratios))) \div 10
                ELSE 0
            S == keyword_term + ec_term + gh_term + gut_term + type_term
        IN  /\ c.confidence = IF S > ONE THEN ONE ELSE S
            /\ n = 5 => keyword_term = 5 * ((CW_keyword_match * ONE) \div 500)
            /\ n = 1 => keyword_term = (CW_keyword_match * ONE) \div 500

C21_Witness ==
    /\ pc = "confidence_scored"
    /\ Cardinality(classification.result.keywords_found) = 5
    /\ classification.result.ec_numbers # {}
    /\ classification.result.gh_families # {}
    /\ classification.result.is_gut_expressed
    /\ Len(classification.result.enzyme_types) = 2
    /\ classification.result.confidence > (ONE \div 10) * 6

ExpressionScored ==
    /\ pc = "expression_scored"
    /\ expression.score_error = "none"

\* whether one of the words is among the words of the text
HasWord(text, words) == \E k \in 1..Len(text) : text[k] \in words

\* whether the candidate's stage evidence is larval: the stage field names the
\* larva, or it names no stage and the description names the larva
LarvalEvidence ==
    LET stage == sequences[1].stage
        description == sequences[1].description
    IN  \/ HasWord(stage, {"larva", "larval"})
        \/ /\ ~HasWord(stage, {"larva", "larval", "adult", "pupa", "pupal"})
           /\ HasWord(description, {"larva", "larval"})

\* whether the candidate has stage evidence at all
StageEvidence ==
    HasWord(sequences[1].stage \o sequences[1].description,
            {"larva", "larval", "adult", "pupa", "pupal"})

\* C22: the expression score is 0.4 if gut-expressed, 0.2 more if the tissue
\* subtype is midgut, foregut or hindgut, 0.2 if a stage is resolved and 0.2
\* more if the stage is larval, at most 1.0; a candidate with larval evidence
\* scores 0.2 more than the same candidate with evidence of another stage.
C22_ExpressionScore ==
    ExpressionScored =>
        LET gut == IF expression.is_gut_expressed THEN (ONE \div 10) * 4 ELSE 0
            region == IF expression.is_gut_expressed
                         /\ expression.tissue_type \in {"midgut", "foregut", "hindgut"}
                      THEN (ONE \div 10) * 2 ELSE 0
            stage == IF LarvalEvidence THEN (ONE \div 10) * 4
                     ELSE IF StageEvidence THEN (ONE \div 10) * 2
                     ELSE 0
        IN  /\ expression.score = gut + region + stage
            /\ expression.score <= ONE

\* the label a text's stage terms stand for
StageLabel(text) ==
    IF HasWord(text, {"larva", "larval"}) THEN "larval"
    ELSE IF HasWord(text, {"adult"}) THEN "adult"
    ELSE IF HasWord(text, {"pupa", "pupal"}) THEN "pupal"
    ELSE NONE

\* C23: the stage is none or one of larval, adult, pupal, and the same terms
\* give the same label in the stage field and, when the stage field names no
\* stage, in the description; the stage field is consulted first.
C23_StageLabelPathIndependent ==
    (pc = "expression_scored" /\ expression.stage_error = "none") =>
        /\ expression.stage \in {NONE, "larval", "adult", "pupal"}
        /\ expression.stage =
              IF StageLabel(sequences[1].stage) # NONE
              THEN StageLabel(sequences[1].stage)
              ELSE StageLabel(sequences[1].description)

\* C24: the tissue subtype comes from the tissue field alone: midgut if the
\* field names the midgut, else foregut, else hindgut, else gut if it names
\* any gut term, else none; a candidate with a subtype is gut-expressed.
C24_TissuePriority ==
    (pc = "expression_scored" /\ expression.tissue_error = "none") =>
        LET tissue == sequences[1].tissue IN
        /\ expression.tissue_type =
              IF HasWord(tissue, {"midgut", "Midgut"}) THEN "midgut"
              ELSE IF HasWord(tissue, {"foregut"}) THEN "foregut"
              ELSE IF HasWord(tissue, {"hindgut"}) THEN "hindgut"
              ELSE IF HasWord(tissue, {"gut", "digestive", "alimentary", "intestine"})
              THEN "gut"
              ELSE NONE
        /\ expression.tissue_type # NONE =>
              (expression.gut_error = "none" /\ expression.is_gut_expressed)

C24_Witness ==
    /\ pc = "expression_scored"
    /\ sequences[1].tissue = <<"hindgut", "Midgut">>
    /\ expression.tissue_type = "midgut"
    /\ expression.is_gut_expressed

---------------------------------------------------------------------------
(* Frame properties of the pipeline (Spec)                                 *)

\* whether key k holds the same value in the dicts before and after (a key
\* the model keeps no value of is only known to be there)
SameEntry(before, after, k) ==
    /\ k \in after.has
    /\ (k \in after.nulls) = (k \in before.nulls)
    /\ (k \notin before.nulls /\ k \in DOMAIN before) => after[k] = before[k]

\* C25: a stage leaves every result attached to a candidate as it is: the
\* classification result (annotation, enzyme_type, gh_family,
\* ec_number_annotated) and the expression result (is_gut_expressed,
\* tissue_type, dev_stage_validated, expression_score) keep their values
\* through the later stages, and confidence is the only key of a candidate that
\* a stage writes again.
C25_OnlyConfidenceRewritten ==
    [][/\ Len(sequences') = Len(sequences)
       /\ \A i \in 1..Len(sequences) :
             /\ \A k \in {"annotation", "enzyme_type", "gh_family",
                          "ec_number_annotated", "is_gut_expressed", "tissue_type",
                          "dev_stage_validated", "expression_score"} :
                   k \in sequences[i].has =>
                       SameEntry(sequences[i], sequences'[i], k)
             /\ \A k \in sequences[i].has \ {"confidence"} :
                   SameEntry(sequences[i], sequences'[i], k)
      ]_vars

C25_Witness ==
    /\ pc = "built"
    /\ BlastRuns
    /\ \E i \in Cands :
          /\ Len(conf_log[i]) = 3
          /\ sequences[i].expression_score > 0
          /\ sequences[i].blast_score > 0
          /\ sequences[i].annotation.confidence > 0
          /\ sequences[i].confidence # sequences[i].annotation.confidence

---------------------------------------------------------------------------
(* Frame property of the matrix's consumers (SpecReport)                   *)

\* C26: the matrix is a snapshot: no operation on a built matrix
\* (rank_by_criteria with any criteria, identify_enzyme_clusters, an export)
\* changes the frame it was given; after the call the caller's frame has the
\* same rows, the same fields in each row and the same values.
C26_MatrixUnchanged ==
    [][(pc \in {"report_matrix", "report_no_rows"}) => (matrix' = matrix)
      ]_vars

\* the hits of candidate i's reply that pass the three thresholds
\* (e-value at most 10, identity at least 50%, coverage at least 70%)
AcceptedHits(i) ==
    IF ~blast_replies[i].ok THEN {}
    ELSE { k \in 1..Len(blast_replies[i].hits) :
             /\ blast_replies[i].hits[k].evalue <= 10
             /\ blast_replies[i].hits[k].identity >= 50
             /\ blast_replies[i].hits[k].coverage >= 70 }

\* 0.4 * min(identity/100, 1) + 0.3 * min(coverage/100, 1)
\*   + 0.3 * max(0, 1 - evalue/threshold)
HitScore(hit) ==
    LET identity_part == IF hit.identity >= 100 THEN ONE ELSE (hit.identity * ONE) \div 100
        coverage_part == IF hit.coverage >= 100 THEN ONE ELSE (hit.coverage * ONE) \div 100
        evalue_part == IF hit.evalue >= 10 THEN 0 ELSE ONE - (hit.evalue * ONE) \div 10
    IN  (4 * identity_part + 3 * coverage_part + 3 * evalue_part) \div 10

\* C27: the homology score of a candidate sent to BLAST lies in [0, 1]; it is
\* 0 when no hit of the reply is accepted, and otherwise it is the weighted
\* sum 0.4 identity + 0.3 coverage + 0.3 e-value term of an accepted hit whose
\* bit score no other accepted hit exceeds.
C27_HomologyScore ==
    (pc \in AfterBlast /\ BlastRuns) =>
        \A i \in Cands :
            BlastAsks(sequences[i]) =>
                /\ Has(sequences[i], "blast_score")
                /\ sequences[i].blast_score >= 0
                /\ sequences[i].blast_score <= ONE
                /\ IF AcceptedHits(i) = {}
                   THEN sequences[i].blast_score = 0
                   ELSE \E k \in AcceptedHits(i) :
                           /\ \A j \in AcceptedHits(i) :
                                 blast_replies[i].hits[j].bitscore
                                     <= blast_replies[i].hits[k].bitscore
                           /\ sequences[i].blast_score
                                  = HitScore(blast_replies[i].hits[k])

\* the homology stage has scored one candidate whose best accepted hit is not
\* the first of its reply and one whose reply has a rejected hit with a higher
\* bit score than the accepted one
C27_Witness ==
    /\ pc = "blasted"
    /\ BlastRuns
    /\ \E i, j \in Cands :
          /\ BlastAsks(sequences[i])
          /\ BlastAsks(sequences[j])
          /\ AcceptedHits(i) = {1, 2}
          /\ blast_replies[i].hits[1].bitscore < blast_replies[i].hits[2].bitscore
          /\ sequences[i].blast_score = (96 * ONE) \div 100
          /\ AcceptedHits(j) = {2}
          /\ blast_replies[j].hits[1].bitscore > blast_replies[j].hits[2].bitscore
          /\ sequences[j].blast_score = (41 * ONE) \div 100

\* C28: with the configured weights the classification confidence is at most
\* 0.7 and the confidence after the expression blend at most 0.79, so in a run
\* without the homology stage no candidate has a confidence of 0.8 or more and
\* the summary of the run's matrix counts no high-confidence row.
C28_ConfidenceCeiling ==
    /\ pc = "retrieved" =>
          /\ \A c \in ConfidenceInputs :
                calculate_confidence(EmptyDict, c) <= (7 * ONE) \div 10
          /\ BlendExpression((7 * ONE) \div 10, ONE) <= (79 * ONE) \div 100
    /\ \A i \in Cands :
          /\ Has(sequences[i], "annotation")
                => sequences[i].annotation.confidence <= (7 * ONE) \div 10
          /\ (Has(sequences[i], "confidence") /\ ~(BlastRuns /\ pc \in AfterBlast))
                => sequences[i].confidence <= (79 * ONE) \div 100
    /\ (pc = "built" /\ ~BlastRuns) =>
          /\ \A i \in Cands : sequences[i].confidence < (8 * ONE) \div 10
          /\ generate_summary(matrix).high_confidence_count = 0

\* a run without the homology stage has built a matrix with a candidate whose
\* confidence the expression blend raised above one half
C28_Witness ==
    /\ pc = "built"
    /\ ~BlastRuns
    /\ \E i \in Cands, r \in 1..Len(matrix) :
          /\ Len(conf_log[i]) = 2
          /\ conf_log[i][2].stage = "expression"
          /\ conf_log[i][2].value > conf_log[i][1].value
          /\ sequences[i].confidence = conf_log[i][2].value
          /\ sequences[i].confidence > ONE \div 2
          /\ matrix[r].GeneID = sequences[i].accession

\* C29: in a completed run the accessions handed to insert_batch are the Gene
\* IDs of the matrix, and both are the accessions of the candidates whose
\* final confidence is at least the run's threshold.
C29_StoredAreTheMatrixRows ==
    pc = "built" =>
        /\ {insert_log[k].accession : k \in 1..Len(insert_log)}
              = {matrix[r].GeneID : r \in 1..Len(matrix)}
        /\ {matrix[r].GeneID : r \in 1..Len(matrix)}
              = {sequences[i].accession :
                   i \in {j \in Cands : sequences[j].confidence >= min_confidence}}

\* a completed run kept one candidate, which is stored and has a row, and
\* dropped another, which has no row
C29_Witness ==
    /\ pc = "built"
    /\ \E i, j \in Cands :
          /\ sequences[i].confidence >= min_confidence
          /\ sequences[j].confidence < min_confidence
          /\ \E r \in 1..Len(matrix) : matrix[r].GeneID = sequences[i].accession
          /\ \A r \in 1..Len(matrix) : matrix[r].GeneID # sequences[j].accession
          /\ \E k \in 1..Len(insert_log) :
                insert_log[k].accession = sequences[i].accession

\* the metadata the classification reads is the same in both records
SameMetadata(a, b) ==
    /\ a.nulls = b.nulls
    /\ \A k \in {"description", "protein_name", "gene_name", "keywords", "features",
                  "ec_number", "tissue", "stage"} : a[k] = b[k]

\* C30: the Enzyme, EC and GH/AA Family of a row are a function of the
\* candidate's metadata: rows made from records with identical metadata carry
\* identical values, also when the text holds several family codes or several
\* EC numbers.
C30_RowIsAFunctionOfMetadata ==
    pc = "built" =>
        \A r1, r2 \in 1..Len(matrix) :
            (\E i, j \in Cands :
                /\ sequences[i].accession = matrix[r1].GeneID
                /\ sequences[j].accession = matrix[r2].GeneID
                /\ SameMetadata(sequences[i], sequences[j]))
            => /\ matrix[r1].Enzyme = matrix[r2].Enzyme
               /\ matrix[r1].EC = matrix[r2].EC
               /\ matrix[r1].Family = matrix[r2].Family

====
